---- MODULE Spec2Model ----
(***************************************************************************)
(* The Delegator of moragents_dockers/agents/src/delegator.py and the      *)
(* /chat handler of moragents_dockers/agents/src/app.py that drives it.    *)
(*                                                                         *)
(* One Delegator object exists per process (app.py:51); its only mutable   *)
(* field is attempted_agents.  The registry (agent_manager) and the        *)
(* upload flag (chat_manager) are collaborators whose code is not part of  *)
(* the sources: they are modelled by their query surface.                  *)
(***************************************************************************)
EXTENDS Integers, Sequences, FiniteSets, TLC

\* ------------------------------------------------------------------ bounds
\* Call-stack limit of the interpreter, scaled down: the number of calls of
\* delegate_chat one turn may nest before the recursion is cut.
MaxDepth == 6

\* Longest sequence of direct calls of the Delegator's methods explored.
MaxCalls == 3

\* HTTP requests one MORLLM.call may nest before the interpreter's recursion
\* limit is reached.
MaxRequests == 3

\* ------------------------------------------------------------- vocabulary
DefaultAgent == "default agent"

\* The registry's agents, in insertion order.
RegistryOrder == <<"base", "crypto_data", "default agent">>

AgentNames == { RegistryOrder[i] : i \in DOMAIN RegistryOrder }

NoAgent == "None"

\* Concurrent request slots of the server.
Turns == {1, 2}

\* What agent.chat may hand back when it returns normally.
\* shape "message": a mapping with role and content; shape "pair": a tuple
\* (error_message, status_code); shape "other": anything else.
AgentReplies ==
    { [shape |-> "message", response_type |-> "success", status_code |-> 0],
      [shape |-> "message", response_type |-> "error",   status_code |-> 0],
      [shape |-> "pair",    response_type |-> "error",   status_code |-> 404],
      [shape |-> "other",   response_type |-> "success", status_code |-> 0] }

\* {"error": "All available agents have been attempted without success"}
CascadeError == [shape |-> "other", response_type |-> "error", status_code |-> 0]

NoReply == [shape |-> "none", response_type |-> "none", status_code |-> 0]

\* Python's None in a field of a request or of an AgentResponse.
None == "None"

\* The request an agent is given, reduced to what the agents' code branches
\* on; NoCall: no agent has been called directly.
NoCall ==
    [agent |-> None, op |-> None, content_kind |-> None, messages |-> None,
     action |-> None, content |-> None, metadata |-> None, llm |-> None,
     func_name |-> None, args |-> None, api |-> None, intent |-> None]

NoAnswer == [response_type |-> "none", content |-> None, error_message |-> None,
             action_type |-> None]

\* functools.lru_cache of get_secret before its first normal return.
NoCache == [filled |-> FALSE, value |-> None]

\* The ChatRequest of a turn that is not running, and of turn t.
NoRequest == <<>>

Prompt(t) == <<"prompt", t>>

\* chat_manager.add_message(prompt), app.py:115: the entry the transcript gains.
AddMessage(t) == <<"message", t>>

\* chat_manager.add_response(validated_response, current_agent), app.py:125.
AddResponse(t) == <<"response", t>>

VARIABLES
    attempted_agents,   \* Delegator.attempted_agents
    selected_agents,    \* agent_manager.get_selected_agents()
    loaded_agents,      \* agents agent_manager holds an instance of
    upload_required,    \* names whose config has upload_required = True
    uploaded_file,      \* chat_manager.get_uploaded_file_status()
    active_agent,       \* agent_manager.get_active_agent()
    pc,                 \* per turn: position of the /chat handler
    agent_name,         \* per turn: argument of the delegate_chat call in progress
    log,                \* per turn: what the turn has done so far
    outcome,            \* per turn: what the outermost delegate_chat gave
    http,               \* per turn: status the handler answered with
    call,               \* the request given to an agent called on its own
    answer,             \* what that agent's method gave back
    cache,              \* get_secret's lru_cache entry for the secret name
    chat_request,       \* per turn: the ChatRequest object of the /chat call
    transcript,         \* per turn: what the /chat call has added to the transcript
    effects             \* calls to the outside made for the request in `call`

registry == <<selected_agents, loaded_agents, upload_required, uploaded_file, active_agent>>

agent_io == <<call, answer>>

vars == <<attempted_agents, selected_agents, loaded_agents, upload_required,
          uploaded_file, active_agent, pc, agent_name, log, outcome, http,
          call, answer, cache, chat_request, transcript, effects>>

\* ---------------------------------------------------------------- helpers
RECURSIVE SelectSeq2(_, _)
SelectSeq2(s, keep) ==
    IF s = <<>> THEN <<>>
    ELSE IF keep[Head(s)] THEN <<Head(s)>> \o SelectSeq2(Tail(s), keep)
         ELSE SelectSeq2(Tail(s), keep)

Entry(kind, name, reply) == [kind |-> kind, agent |-> name, reply |-> reply]

\* ------------------------------------------------------------- the registry
\* agent_manager.get_available_agents(): the configs of the loaded agents.
GetAvailableAgents ==
    LET names == SelectSeq2(RegistryOrder, [n \in AgentNames |-> n \in loaded_agents])
    IN  [i \in DOMAIN names |->
            [name |-> names[i], upload_required |-> names[i] \in upload_required]]

\* agent_manager.get_agent(name): the instance, or nothing when not loaded.
GetAgent(name) == IF name \in loaded_agents THEN name ELSE NoAgent

\* ------------------------------------------------------------ the Delegator
\* The filter without its exclusion of the default agent.
GetAvailableUnattemptedAgentsKeepsDefault ==
    LET all == GetAvailableAgents
        keep(c) == /\ c.name \in selected_agents
                   /\ c.name \notin attempted_agents
                   /\ ~(c.upload_required /\ ~uploaded_file)
        idx == SelectSeq2([i \in DOMAIN all |-> i], [i \in DOMAIN all |-> keep(all[i])])
    IN  [k \in DOMAIN idx |-> all[idx[k]]]

\* Delegator.get_available_unattempted_agents
GetAvailableUnattemptedAgents ==
    LET all == GetAvailableAgents
        keep(c) == /\ c.name \in selected_agents
                   /\ c.name \notin attempted_agents
                   /\ c.name # DefaultAgent
                   /\ ~(c.upload_required /\ ~uploaded_file)
        idx == SelectSeq2([i \in DOMAIN all |-> i], [i \in DOMAIN all |-> keep(all[i])])
    IN  [k \in DOMAIN idx |-> all[idx[k]]]

\* get_delegator_response without the default-agent branch: an empty eligible
\* list always ends in ValueError.
GetDelegatorResponseNoFallback ==
    LET available_agents == GetAvailableUnattemptedAgents
    IN  IF available_agents = <<>>
        THEN { [kind |-> "exhausted", agent |-> NoAgent,
                attempted |-> attempted_agents] }
        ELSE { [kind |-> "llm", agent |-> available_agents[i].name,
                attempted |-> attempted_agents \cup {available_agents[i].name}]
               : i \in DOMAIN available_agents }
             \cup { [kind |-> "no_tool_call", agent |-> NoAgent,
                     attempted |-> attempted_agents],
                    [kind |-> "llm_raise", agent |-> NoAgent,
                     attempted |-> attempted_agents],
                    [kind |-> "llm_timeout", agent |-> NoAgent,
                     attempted |-> attempted_agents],
                    [kind |-> "llm", agent |-> NoAgent,
                     attempted |-> attempted_agents \cup {NoAgent}] }

\* get_delegator_response that overwrites attempted_agents with the chosen
\* name instead of adding to it.
GetDelegatorResponseForgets ==
    LET available_agents == GetAvailableUnattemptedAgents
    IN  IF available_agents = <<>>
        THEN IF DefaultAgent \notin attempted_agents
             THEN { [kind |-> "default", agent |-> DefaultAgent,
                     attempted |-> attempted_agents] }
             ELSE { [kind |-> "exhausted", agent |-> NoAgent,
                     attempted |-> attempted_agents] }
        ELSE { [kind |-> "llm", agent |-> available_agents[i].name,
                attempted |-> {available_agents[i].name}]
               : i \in DOMAIN available_agents }
             \cup { [kind |-> "no_tool_call", agent |-> NoAgent,
                     attempted |-> attempted_agents],
                    [kind |-> "llm_raise", agent |-> NoAgent,
                     attempted |-> attempted_agents],
                    [kind |-> "llm_timeout", agent |-> NoAgent,
                     attempted |-> attempted_agents],
                    [kind |-> "llm", agent |-> NoAgent,
                     attempted |-> {NoAgent}] }

\* get_delegator_response that marks the first listed agent as attempted
\* before it looks at the model's tool calls.
GetDelegatorResponseMarksOnFailure ==
    LET available_agents == GetAvailableUnattemptedAgents
    IN  IF available_agents = <<>>
        THEN IF DefaultAgent \notin attempted_agents
             THEN { [kind |-> "default", agent |-> DefaultAgent,
                     attempted |-> attempted_agents] }
             ELSE { [kind |-> "exhausted", agent |-> NoAgent,
                     attempted |-> attempted_agents] }
        ELSE { [kind |-> "llm", agent |-> available_agents[i].name,
                attempted |-> attempted_agents \cup {available_agents[i].name}]
               : i \in DOMAIN available_agents }
             \cup { [kind |-> "no_tool_call", agent |-> NoAgent,
                     attempted |-> attempted_agents \cup {available_agents[1].name}],
                    [kind |-> "llm_raise", agent |-> NoAgent,
                     attempted |-> attempted_agents],
                    [kind |-> "llm_timeout", agent |-> NoAgent,
                     attempted |-> attempted_agents],
                    [kind |-> "llm", agent |-> NoAgent,
                     attempted |-> attempted_agents \cup {NoAgent}] }

\* Delegator.get_delegator_response: every way the call can end, with the
\* value of attempted_agents it leaves behind.
\*   kind "default"      the default-agent branch returned
\*   kind "llm"          the model's tool call is returned: the agent it names,
\*                       or NoAgent when its arguments hold no "agent"
\*   kind "exhausted"    ValueError: no remaining agents
\*   kind "no_tool_call" ValueError: the model returned no tool call
\*   kind "llm_raise"    the model call raised (not a ValueError)
\*   kind "llm_timeout"  the model call raised TimeoutError
GetDelegatorResponse ==
    LET available_agents == GetAvailableUnattemptedAgents
    IN  IF available_agents = <<>>
        THEN IF DefaultAgent \notin attempted_agents
             THEN { [kind |-> "default", agent |-> DefaultAgent,
                     attempted |-> attempted_agents] }
             ELSE { [kind |-> "exhausted", agent |-> NoAgent,
                     attempted |-> attempted_agents] }
        ELSE { [kind |-> "llm", agent |-> available_agents[i].name,
                attempted |-> attempted_agents \cup {available_agents[i].name}]
               : i \in DOMAIN available_agents }
             \cup { [kind |-> "no_tool_call", agent |-> NoAgent,
                     attempted |-> attempted_agents],
                    [kind |-> "llm_raise", agent |-> NoAgent,
                     attempted |-> attempted_agents],
                    [kind |-> "llm_timeout", agent |-> NoAgent,
                     attempted |-> attempted_agents],
                    [kind |-> "llm", agent |-> NoAgent,
                     attempted |-> attempted_agents \cup {NoAgent}] }

\* reset_attempted_agents written as a comparison: the set is left as it is.
ResetAttemptedAgentsNoOp == attempted_agents

\* Delegator.reset_attempted_agents
ResetAttemptedAgents == {}

\* Calls of delegate_chat made so far in turn t.
Calls(t) == SelectSeq(log[t], LAMBDA e : e.kind \in {"pinned", "llm", "default"})

\* ------------------------------------------------------------------- state
Init ==
    /\ attempted_agents = {}
    /\ selected_agents \in SUBSET AgentNames
    /\ loaded_agents \in SUBSET AgentNames
    /\ upload_required \in SUBSET AgentNames
    /\ uploaded_file \in BOOLEAN
    /\ active_agent \in AgentNames \cup {NoAgent}
    /\ pc = [t \in Turns |-> "idle"]
    /\ agent_name = [t \in Turns |-> NoAgent]
    /\ log = [t \in Turns |-> <<>>]
    /\ outcome = [t \in Turns |-> [kind |-> "none", agent |-> NoAgent, response |-> NoReply]]
    /\ http = [t \in Turns |-> 0]
    /\ call = NoCall
    /\ answer = NoAnswer
    /\ cache = NoCache
    /\ chat_request = [t \in Turns |-> NoRequest]
    /\ transcript = [t \in Turns |-> <<>>]
    /\ effects = <<>>

\* ----------------------------------------------------------------- actions
\* chat, lines 113-118: the prompt is stored and the routing state reset.
Chat(t) ==
    /\ pc[t] = "idle"
    /\ attempted_agents' = ResetAttemptedAgents
    /\ pc' = [pc EXCEPT ![t] = "select"]
    /\ log' = [log EXCEPT ![t] = <<>>]
    /\ agent_name' = [agent_name EXCEPT ![t] = NoAgent]
    /\ outcome' = [outcome EXCEPT ![t] = [kind |-> "none", agent |-> NoAgent, response |-> NoReply]]
    /\ http' = [http EXCEPT ![t] = 0]
    /\ chat_request' = [chat_request EXCEPT ![t] = Prompt(t)]
    /\ transcript' = [transcript EXCEPT ![t] = <<AddMessage(t)>>]
    /\ UNCHANGED <<registry, agent_io, cache, effects>>

\* The handler as the event loop runs it: one request at a time.
SerialChat(t) ==
    /\ \A u \in Turns \ {t} : pc[u] = "idle"
    /\ Chat(t)

\* get_active_agent_for_chat that does not consult the pinned agent.
GetActiveAgentForChatIgnoresPin(t) ==
    /\ pc[t] = "select"
    /\ \E r \in GetDelegatorResponse :
            /\ attempted_agents' = r.attempted
            /\ log' = [log EXCEPT ![t] = Append(@, Entry(r.kind, r.agent, NoReply))]
            /\ IF r.kind \in {"llm", "default"}
               THEN /\ agent_name' = [agent_name EXCEPT ![t] = r.agent]
                    /\ pc' = [pc EXCEPT ![t] = "delegate"]
                    /\ UNCHANGED outcome
               ELSE /\ pc' = [pc EXCEPT ![t] = "done"]
                    /\ outcome' = [outcome EXCEPT ![t] =
                          [kind |-> CASE r.kind = "llm_raise" -> "selection_raised"
                                      [] r.kind = "llm_timeout" -> "selection_timeout"
                                      [] OTHER -> "selection_value_error",
                           agent |-> NoAgent, response |-> NoReply]]
                    /\ UNCHANGED agent_name
    /\ UNCHANGED <<registry, http, agent_io, cache, chat_request, transcript, effects>>

\* get_active_agent_for_chat
GetActiveAgentForChat(t) ==
    /\ pc[t] = "select"
    /\ IF active_agent # NoAgent
       THEN /\ agent_name' = [agent_name EXCEPT ![t] = active_agent]
            /\ log' = [log EXCEPT ![t] = Append(@, Entry("pinned", active_agent, NoReply))]
            /\ pc' = [pc EXCEPT ![t] = "delegate"]
            /\ UNCHANGED <<attempted_agents, outcome>>
       ELSE \E r \in GetDelegatorResponse :
            /\ attempted_agents' = r.attempted
            /\ log' = [log EXCEPT ![t] = Append(@, Entry(r.kind, r.agent, NoReply))]
            /\ IF r.kind \in {"llm", "default"}
               THEN /\ agent_name' = [agent_name EXCEPT ![t] = r.agent]
                    /\ pc' = [pc EXCEPT ![t] = "delegate"]
                    /\ UNCHANGED outcome
               ELSE /\ pc' = [pc EXCEPT ![t] = "done"]
                    /\ outcome' = [outcome EXCEPT ![t] =
                          [kind |-> CASE r.kind = "llm_raise" -> "selection_raised"
                                      [] r.kind = "llm_timeout" -> "selection_timeout"
                                      [] OTHER -> "selection_value_error",
                           agent |-> NoAgent, response |-> NoReply]]
                    /\ UNCHANGED agent_name
    /\ UNCHANGED <<registry, http, agent_io, cache, chat_request, transcript, effects>>

\* delegate_chat that looks into the agent's result and cascades when its
\* response_type is error.
DelegateChatInspectsReply(t) ==
    /\ pc[t] = "delegate"
    /\ IF agent_name[t] \notin selected_agents
       THEN /\ log' = [log EXCEPT ![t] = Append(@, Entry("unselected", agent_name[t], NoReply))]
            /\ pc' = [pc EXCEPT ![t] = "try_next"]
            /\ UNCHANGED outcome
       ELSE IF GetAgent(agent_name[t]) = NoAgent
       THEN /\ log' = [log EXCEPT ![t] = Append(@, Entry("not_loaded", agent_name[t], NoReply))]
            /\ pc' = [pc EXCEPT ![t] = "try_next"]
            /\ UNCHANGED outcome
       ELSE \/ \E result \in AgentReplies :
                /\ log' = [log EXCEPT ![t] = Append(@, Entry("returned", agent_name[t], result))]
                /\ IF result.response_type = "error"
                   THEN /\ pc' = [pc EXCEPT ![t] = "try_next"]
                        /\ UNCHANGED outcome
                   ELSE /\ outcome' = [outcome EXCEPT ![t] =
                              [kind |-> "returned", agent |-> agent_name[t], response |-> result]]
                        /\ pc' = [pc EXCEPT ![t] = "done"]
            \/  /\ log' = [log EXCEPT ![t] = Append(@, Entry("raised", agent_name[t], NoReply))]
                /\ pc' = [pc EXCEPT ![t] = "try_next"]
                /\ UNCHANGED outcome
    /\ UNCHANGED <<attempted_agents, registry, agent_name, http, agent_io, cache, chat_request, transcript, effects>>

\* delegate_chat without its check of the selected agents.
DelegateChatSkipsSelectedCheck(t) ==
    /\ pc[t] = "delegate"
    /\ IF GetAgent(agent_name[t]) = NoAgent
       THEN /\ log' = [log EXCEPT ![t] = Append(@, Entry("not_loaded", agent_name[t], NoReply))]
            /\ pc' = [pc EXCEPT ![t] = "try_next"]
            /\ UNCHANGED outcome
       ELSE \/ \E result \in AgentReplies :
                /\ log' = [log EXCEPT ![t] = Append(@, Entry("returned", agent_name[t], result))]
                /\ outcome' = [outcome EXCEPT ![t] =
                      [kind |-> "returned", agent |-> agent_name[t], response |-> result]]
                /\ pc' = [pc EXCEPT ![t] = "done"]
            \/  /\ log' = [log EXCEPT ![t] = Append(@, Entry("raised", agent_name[t], NoReply))]
                /\ pc' = [pc EXCEPT ![t] = "try_next"]
                /\ UNCHANGED outcome
    /\ UNCHANGED <<attempted_agents, registry, agent_name, http, agent_io, cache, chat_request, transcript, effects>>

\* Delegator.delegate_chat up to its return or its call of _try_next_agent.
DelegateChat(t) ==
    /\ pc[t] = "delegate"
    /\ IF agent_name[t] \notin selected_agents
       THEN /\ log' = [log EXCEPT ![t] = Append(@, Entry("unselected", agent_name[t], NoReply))]
            /\ pc' = [pc EXCEPT ![t] = "try_next"]
            /\ UNCHANGED outcome
       ELSE IF GetAgent(agent_name[t]) = NoAgent
       THEN /\ log' = [log EXCEPT ![t] = Append(@, Entry("not_loaded", agent_name[t], NoReply))]
            /\ pc' = [pc EXCEPT ![t] = "try_next"]
            /\ UNCHANGED outcome
       ELSE \/ \E result \in AgentReplies :
                /\ log' = [log EXCEPT ![t] = Append(@, Entry("returned", agent_name[t], result))]
                /\ outcome' = [outcome EXCEPT ![t] =
                      [kind |-> "returned", agent |-> agent_name[t], response |-> result]]
                /\ pc' = [pc EXCEPT ![t] = "done"]
            \/  /\ log' = [log EXCEPT ![t] = Append(@, Entry("raised", agent_name[t], NoReply))]
                /\ pc' = [pc EXCEPT ![t] = "try_next"]
                /\ UNCHANGED outcome
    /\ UNCHANGED <<attempted_agents, registry, agent_name, http, agent_io, cache, chat_request, transcript, effects>>

\* _try_next_agent that hands on a rewritten request instead of the one it
\* was given.
TryNextAgentRewritesRequest(t) ==
    /\ pc[t] = "try_next"
    /\ Len(Calls(t)) < MaxDepth
    /\ \E r \in GetDelegatorResponse :
        /\ attempted_agents' = r.attempted
        /\ log' = [log EXCEPT ![t] = Append(@, Entry(r.kind, r.agent, NoReply))]
        /\ IF r.kind \in {"llm", "default"}
           THEN /\ agent_name' = [agent_name EXCEPT ![t] = r.agent]
                /\ pc' = [pc EXCEPT ![t] = "delegate"]
                /\ UNCHANGED outcome
           ELSE /\ pc' = [pc EXCEPT ![t] = "done"]
                /\ outcome' = [outcome EXCEPT ![t] =
                      CASE r.kind = "llm_raise" ->
                             [kind |-> "raised", agent |-> NoAgent, response |-> NoReply]
                        [] r.kind = "llm_timeout" ->
                             [kind |-> "raised_timeout", agent |-> NoAgent, response |-> NoReply]
                        [] OTHER ->
                             [kind |-> "returned", agent |-> NoAgent, response |-> CascadeError]]
                /\ UNCHANGED agent_name
    /\ chat_request' = [chat_request EXCEPT ![t] = <<"prompt", t, "retry">>]
    /\ UNCHANGED <<registry, http, agent_io, cache, transcript, effects>>

\* Delegator._try_next_agent up to its return or its call of delegate_chat.
TryNextAgent(t) ==
    /\ pc[t] = "try_next"
    /\ Len(Calls(t)) < MaxDepth
    /\ \E r \in GetDelegatorResponse :
        /\ attempted_agents' = r.attempted
        /\ log' = [log EXCEPT ![t] = Append(@, Entry(r.kind, r.agent, NoReply))]
        /\ IF r.kind \in {"llm", "default"}
           THEN /\ agent_name' = [agent_name EXCEPT ![t] = r.agent]
                /\ pc' = [pc EXCEPT ![t] = "delegate"]
                /\ UNCHANGED outcome
           ELSE /\ pc' = [pc EXCEPT ![t] = "done"]
                /\ outcome' = [outcome EXCEPT ![t] =
                      CASE r.kind = "llm_raise" ->
                             [kind |-> "raised", agent |-> NoAgent, response |-> NoReply]
                        [] r.kind = "llm_timeout" ->
                             [kind |-> "raised_timeout", agent |-> NoAgent, response |-> NoReply]
                        [] OTHER ->
                             [kind |-> "returned", agent |-> NoAgent, response |-> CascadeError]]
                /\ UNCHANGED agent_name
    /\ UNCHANGED <<registry, http, agent_io, cache, chat_request, transcript, effects>>

\* The nesting of delegate_chat / _try_next_agent has used up the call stack:
\* the interpreter raises RecursionError, which no frame of the cascade handles.
RecursionLimit(t) ==
    /\ pc[t] = "try_next"
    /\ Len(Calls(t)) >= MaxDepth
    /\ pc' = [pc EXCEPT ![t] = "done"]
    /\ log' = [log EXCEPT ![t] = Append(@, Entry("recursion_error", NoAgent, NoReply))]
    /\ outcome' = [outcome EXCEPT ![t] = [kind |-> "raised", agent |-> NoAgent, response |-> NoReply]]
    /\ UNCHANGED <<attempted_agents, registry, agent_name, http, agent_io, cache, chat_request, transcript, effects>>

\* validate_agent_response: 200 when the response is returned, otherwise the
\* status of the HTTPException it raises.
ValidateAgentResponse(response, current_agent) ==
    IF current_agent = NoAgent THEN 500
    ELSE IF response.shape = "pair" THEN response.status_code
    ELSE IF response.shape # "message" THEN 500
    ELSE 200

\* chat without its except TimeoutError clause: a timeout reaches the last
\* except clause.
ChatStatusNoTimeoutClause(o) ==
    CASE o.kind = "selection_value_error" -> 400
      [] o.kind \in {"selection_raised", "selection_timeout"} -> 500
      [] o.kind \in {"raised", "raised_timeout"} -> 500
      [] OTHER -> IF ValidateAgentResponse(o.response, o.agent) = 200 THEN 200 ELSE 500

\* chat, lines 117-138: the status the handler's try/except answers with.  An
\* HTTPException raised inside the try block is itself caught by the last
\* except clause and raised again with status 500.
ChatStatus(o) ==
    CASE o.kind \in {"selection_timeout", "raised_timeout"} -> 504
      [] o.kind = "selection_value_error" -> 400
      [] o.kind = "selection_raised" -> 500
      [] o.kind = "raised" -> 500
      [] OTHER -> IF ValidateAgentResponse(o.response, o.agent) = 200 THEN 200 ELSE 500

\* The end of the handler with add_response called before
\* validate_agent_response: whatever delegate_chat returned is recorded.
RespondRecordsUnvalidated(t) ==
    /\ pc[t] = "done"
    /\ http' = [http EXCEPT ![t] = ChatStatus(outcome[t])]
    /\ transcript' = [transcript EXCEPT ![t] =
                          IF outcome[t].kind = "returned"
                          THEN Append(@, AddResponse(t)) ELSE @]
    /\ pc' = [pc EXCEPT ![t] = "idle"]
    /\ log' = [log EXCEPT ![t] = <<>>]
    /\ agent_name' = [agent_name EXCEPT ![t] = NoAgent]
    /\ outcome' = [outcome EXCEPT ![t] = [kind |-> "none", agent |-> NoAgent, response |-> NoReply]]
    /\ chat_request' = [chat_request EXCEPT ![t] = NoRequest]
    /\ UNCHANGED <<attempted_agents, registry, agent_io, cache, effects>>

\* chat, lines 122-138: the end of the handler.  add_response is reached
\* only when validate_agent_response returned.
Respond(t) ==
    /\ pc[t] = "done"
    /\ http' = [http EXCEPT ![t] = ChatStatus(outcome[t])]
    /\ transcript' = [transcript EXCEPT ![t] =
                          IF ChatStatus(outcome[t]) = 200
                          THEN Append(@, AddResponse(t)) ELSE @]
    /\ pc' = [pc EXCEPT ![t] = "idle"]
    /\ log' = [log EXCEPT ![t] = <<>>]
    /\ agent_name' = [agent_name EXCEPT ![t] = NoAgent]
    /\ outcome' = [outcome EXCEPT ![t] = [kind |-> "none", agent |-> NoAgent, response |-> NoReply]]
    /\ chat_request' = [chat_request EXCEPT ![t] = NoRequest]
    /\ UNCHANGED <<attempted_agents, registry, agent_io, cache, effects>>

Next ==
    \E t \in Turns :
        \/ SerialChat(t)
        \/ GetActiveAgentForChat(t)
        \/ DelegateChat(t)
        \/ TryNextAgent(t)
        \/ RecursionLimit(t)
        \/ Respond(t)

Spec == Init /\ [][Next]_vars

\* Two requests in progress at once on the one Delegator of app.py:51, their
\* handlers interleaving between the Delegator's calls (a host that runs
\* requests concurrently; the Delegator holds no lock).  Every agent loaded,
\* "base" and the default agent selected, nothing pinned.
InitConc ==
    /\ Init
    /\ selected_agents = {"base", DefaultAgent}
    /\ loaded_agents = AgentNames
    /\ upload_required = {}
    /\ uploaded_file = FALSE
    /\ active_agent = NoAgent

NextConc ==
    \E t \in Turns :
        \/ Chat(t)
        \/ GetActiveAgentForChat(t)
        \/ DelegateChat(t)
        \/ TryNextAgent(t)
        \/ RecursionLimit(t)
        \/ Respond(t)

SpecConc == InitConc /\ [][NextConc]_vars

\* ---- The Delegator's methods called directly, in any order ----
\* No turn is running; log[1] records the calls made so far.

InitApi ==
    /\ Init
    /\ loaded_agents = AgentNames
    /\ upload_required = {}
    /\ uploaded_file = FALSE
    /\ active_agent = NoAgent

\* Delegator.reset_attempted_agents, called on its own
ResetAttemptedAgentsCall ==
    /\ Len(log[1]) < MaxCalls
    /\ attempted_agents' = ResetAttemptedAgents
    /\ log' = [log EXCEPT ![1] = Append(@, Entry("reset", NoAgent, NoReply))]
    /\ UNCHANGED <<registry, pc, agent_name, outcome, http, agent_io, cache, chat_request, transcript, effects>>

\* Delegator.get_delegator_response, called on its own
GetDelegatorResponseCall ==
    /\ Len(log[1]) < MaxCalls
    /\ \E r \in GetDelegatorResponse :
            /\ attempted_agents' = r.attempted
            /\ log' = [log EXCEPT ![1] = Append(@, Entry(r.kind, r.agent, NoReply))]
    /\ UNCHANGED <<registry, pc, agent_name, outcome, http, agent_io, cache, chat_request, transcript, effects>>

NextApi == ResetAttemptedAgentsCall \/ GetDelegatorResponseCall

SpecApi == InitApi /\ [][NextApi]_vars

\* ---- The agents, each called on its own ----

\* AgentResponse.success / .error / .needs_info / .action_required
AgentResponseSuccess(content, action_type) ==
    [response_type |-> "success", content |-> content, error_message |-> None,
     action_type |-> action_type]

AgentResponseError(error_message) ==
    [response_type |-> "error", content |-> None, error_message |-> error_message,
     action_type |-> None]

AgentResponseNeedsInfo(content) ==
    [response_type |-> "needs_info", content |-> content, error_message |-> None,
     action_type |-> None]

AgentResponseActionRequired(content, action_type) ==
    [response_type |-> "action_required", content |-> content, error_message |-> None,
     action_type |-> action_type]

\* An exception leaving the code in hand; error_message holds str(e).
Raised(e) ==
    [response_type |-> "raised", content |-> None, error_message |-> e,
     action_type |-> None]

\* try: body / except Exception as e: return AgentResponse.error(str(e))
ExceptReturnsError(body) ==
    IF body.response_type = "raised" THEN AgentResponseError(body.error_message) ELSE body

\* str.strip() on the contents the model tells apart
Strip(x) == IF x = " text " THEN "text" ELSE IF x = "  " THEN "" ELSE x

\* _post_tweet that does not look for the required keys.
PostTweetSkipsKeyCheck(c) ==
    IF c.api = "raises" THEN "Failed to post tweet"
    ELSE "posted"

\* TweetSizzlerAgent._post_tweet: the dictionary it returns
PostTweet(c) ==
    IF c.metadata # "credentials" THEN "ERROR_MISSING_API_CREDENTIALS"
    ELSE IF c.api = "raises" THEN "Failed to post tweet"
    ELSE "posted"

\* TweetSizzlerAgent._process_request, the body of its try
TweetSizzlerBody(c) ==
    LET action == IF c.content_kind = "dict" THEN c.action ELSE "generate"
    IN  IF c.messages = "raises" THEN Raised("ValidationError")
        ELSE IF action = "generate"
        THEN IF c.content = "" THEN Raised("ValueError")
             ELSE IF c.llm = "raises" THEN Raised("llm")
             ELSE AgentResponseSuccess("tweet", None)
        ELSE IF action = "post"
        THEN IF c.metadata \in {"none", "no_credentials"}
             THEN AgentResponseError("ERROR_MISSING_API_CREDENTIALS")
             ELSE IF PostTweet(c) # "posted"
                  THEN AgentResponseError(PostTweet(c))
                  ELSE AgentResponseSuccess("Tweet posted successfully", None)
        ELSE AgentResponseError("ERROR_INVALID_ACTION")

\* _process_request without its except clause.
TweetSizzlerProcessRequestNoExcept(c) == TweetSizzlerBody(c)

\* _process_request that reads the reason of a rejected post from a key the
\* dictionary of _post_tweet does not have.
TweetSizzlerProcessRequestNoMessage(c) ==
    LET r == ExceptReturnsError(TweetSizzlerBody(c))
    IN  IF r.response_type = "error" /\ r.error_message = "Failed to post tweet"
        THEN AgentResponseError(None)
        ELSE r

\* TweetSizzlerAgent._process_request
TweetSizzlerProcessRequest(c) == ExceptReturnsError(TweetSizzlerBody(c))

DexScreenerTools == {"search_dex_pairs", "get_latest_token_profiles",
                     "get_latest_boosted_tokens", "get_top_boosted_tokens"}

\* _execute_tool without its except clause.
DexScreenerExecuteToolNoExcept(c) ==
    IF c.func_name \in DexScreenerTools
    THEN IF c.func_name = "search_dex_pairs" /\ c.args = "missing"
         THEN Raised("KeyError")
         ELSE IF c.api = "raises" THEN Raised("api")
         ELSE AgentResponseSuccess("formatted_response", c.func_name)
    ELSE AgentResponseError("Unknown tool")

\* _execute_tool that returns the tool's result untagged.
DexScreenerExecuteToolUntagged(c) ==
    ExceptReturnsError(
        IF c.func_name \in DexScreenerTools
        THEN IF c.func_name = "search_dex_pairs" /\ c.args = "missing"
             THEN Raised("KeyError")
             ELSE IF c.api = "raises" THEN Raised("api")
             ELSE AgentResponseSuccess("formatted_response", None)
        ELSE AgentResponseError("Unknown tool"))

\* DexScreenerAgent._execute_tool
DexScreenerExecuteTool(c) ==
    ExceptReturnsError(
        IF c.func_name \in DexScreenerTools
        THEN IF c.func_name = "search_dex_pairs" /\ c.args = "missing"
             THEN Raised("KeyError")
             ELSE IF c.api = "raises" THEN Raised("api")
             ELSE AgentResponseSuccess("formatted_response", c.func_name)
        ELSE AgentResponseError("Unknown tool"))

ElfaTools == {"get_top_mentions", "search_mentions", "get_trending_tokens",
              "get_account_smart_stats"}

\* ElfaAgent._execute_tool
ElfaExecuteTool(c) ==
    ExceptReturnsError(
        IF c.func_name \in ElfaTools
        THEN IF c.func_name \in {"get_top_mentions", "get_account_smart_stats"}
                /\ c.args = "missing"
             THEN Raised("KeyError")
             ELSE IF c.api = "raises" THEN Raised("api")
             ELSE AgentResponseSuccess("formatted_response", c.func_name)
        ELSE AgentResponseError("Unknown tool"))

\* AgentCore._handle_llm_response: a requested tool is executed and its
\* result is the answer; otherwise the completion's text is.
HandleLlmResponse(c, tool_result) ==
    IF c.llm = "tool_call" THEN tool_result
    ELSE AgentResponseSuccess("llm_text", None)

\* DexScreenerAgent._process_request / ElfaAgent._process_request
ToolAgentProcessRequest(c, tool_result) ==
    ExceptReturnsError(
        IF c.llm = "raises" THEN Raised("llm")
        ELSE HandleLlmResponse(c, tool_result))

\* DefaultAgent._process_request that returns the completion unstripped.
DefaultProcessRequestUnstripped(c) ==
    ExceptReturnsError(
        IF c.llm = "raises" THEN Raised("llm")
        ELSE IF c.content # ""
        THEN AgentResponseSuccess(c.content, None)
        ELSE AgentResponseError("Failed to generate a response"))

\* DefaultAgent._process_request; c.content is response.content
DefaultProcessRequest(c) ==
    ExceptReturnsError(
        IF c.llm = "raises" THEN Raised("llm")
        ELSE IF c.content # ""
        THEN AgentResponseSuccess(Strip(c.content), None)
        ELSE AgentResponseError("Failed to generate a response"))

\* BaseAgent._process_request, as its benchmark tests pin it down
BaseProcessRequest(c) ==
    IF c.intent \in {"swap", "transfer"}
    THEN AgentResponseActionRequired("Ready to perform " \o c.intent, c.intent)
    ELSE AgentResponseSuccess("balance", None)

\* CryptoDataAgent._process_request, as its benchmark tests pin it down
CryptoDataProcessRequest(c) ==
    IF c.intent = "invalid"
    THEN AgentResponseNeedsInfo("I don't know how to handle that type of request")
    ELSE IF c.intent = "missing_argument"
    THEN AgentResponseNeedsInfo("Please provide the name of the coin")
    ELSE AgentResponseSuccess("price", None)

\* agent._process_request(request), by agent
ProcessRequest(c) ==
    CASE c.agent = "tweet_sizzler" -> TweetSizzlerProcessRequest(c)
      [] c.agent = "dexscreener"   -> ToolAgentProcessRequest(c, DexScreenerExecuteTool(c))
      [] c.agent = "elfa"          -> ToolAgentProcessRequest(c, ElfaExecuteTool(c))
      [] c.agent = "default"       -> DefaultProcessRequest(c)
      [] c.agent = "base"          -> BaseProcessRequest(c)
      [] c.agent = "crypto_data"   -> CryptoDataProcessRequest(c)

\* agent._execute_tool(func_name, args), by agent
ExecuteTool(c) ==
    CASE c.agent = "tweet_sizzler" ->
            AgentResponseError("This agent does not support tool execution")
      [] c.agent = "dexscreener"   -> DexScreenerExecuteTool(c)
      [] c.agent = "elfa"          -> ElfaExecuteTool(c)
      [] c.agent = "default"       -> AgentResponseError("Unknown tool")

\* The calls to the outside TweetSizzlerAgent._process_request makes: the
\* model call of _generate_tweet, client.create_tweet of _post_tweet.
TweetSizzlerEffects(c) ==
    LET action == IF c.content_kind = "dict" THEN c.action ELSE "generate"
    IN  IF c.messages = "raises" THEN <<>>
        ELSE IF action = "generate"
        THEN IF c.content = "" THEN <<>> ELSE <<"llm.invoke">>
        ELSE IF action = "post"
        THEN IF c.metadata \in {"none", "no_credentials"} THEN <<>>
             ELSE IF PostTweet(c) = "ERROR_MISSING_API_CREDENTIALS" THEN <<>>
             ELSE <<"client.create_tweet">>
        ELSE <<>>

\* The API request a tool of DexScreenerAgent / ElfaAgent makes: none when
\* the name is not in the table or reading the required argument raises.
ToolEffects(c, names, requires) ==
    IF c.func_name \in names /\ ~(c.func_name \in requires /\ c.args = "missing")
    THEN <<c.func_name>> ELSE <<>>

\* The calls to the outside agent._execute_tool makes, by agent.
ExecuteToolEffects(c) ==
    CASE c.agent = "dexscreener" ->
            ToolEffects(c, DexScreenerTools, {"search_dex_pairs"})
      [] c.agent = "elfa" ->
            ToolEffects(c, ElfaTools, {"get_top_mentions", "get_account_smart_stats"})
      [] OTHER -> <<>>

\* The calls to the outside agent._process_request makes, by agent; those of
\* BaseAgent and CryptoDataAgent are not told by their tests.
ProcessRequestEffects(c) ==
    CASE c.agent = "tweet_sizzler" -> TweetSizzlerEffects(c)
      [] c.agent \in {"dexscreener", "elfa"} ->
            <<"llm">> \o (IF c.llm = "tool_call" THEN ExecuteToolEffects(c) ELSE <<>>)
      [] c.agent = "default" -> <<"llm">>
      [] OTHER -> <<>>

\* delegate_chat, lines 114-120: what it does with the outcome of agent.chat
DelegateChatOnAgent(result) ==
    IF result.response_type = "raised" THEN "try_next_agent" ELSE "return"

\* The requests explored, per agent.
TweetSizzlerCalls ==
    { [NoCall EXCEPT !.agent = "tweet_sizzler", !.op = "process_request",
                     !.content_kind = "str", !.messages = "ok",
                     !.content = x, !.llm = l]
        : x \in {"text", ""}, l \in {"content", "raises"} }
    \cup
    { [NoCall EXCEPT !.agent = "tweet_sizzler", !.op = "process_request",
                     !.content_kind = "dict", !.messages = m, !.action = a,
                     !.content = x, !.metadata = md, !.llm = l, !.api = y]
        : m \in {"ok", "raises"}, a \in {"generate", "post", "delete"},
          x \in {"text", ""},
          md \in {"none", "no_credentials", "partial_credentials", "credentials"},
          l \in {"content", "raises"}, y \in {"ok", "raises"} }
    \cup
    { [NoCall EXCEPT !.agent = "tweet_sizzler", !.op = "execute_tool",
                     !.func_name = f, !.args = x]
        : f \in {"post_tweet", "unknown"}, x \in {"complete", "missing"} }

ToolCalls(agent, names) ==
    { [NoCall EXCEPT !.agent = agent, !.op = o, !.llm = l, !.func_name = f,
                     !.args = a, !.api = x]
        : o \in {"process_request", "execute_tool"},
          l \in {"tool_call", "content", "raises"},
          f \in names \cup {"unknown"}, a \in {"complete", "missing"},
          x \in {"ok", "raises"} }

DefaultCalls ==
    { [NoCall EXCEPT !.agent = "default", !.op = "process_request",
                     !.llm = l, !.content = x]
        : l \in {"content", "raises"}, x \in {"text", " text ", "  ", ""} }
    \cup { [NoCall EXCEPT !.agent = "default", !.op = "execute_tool",
                          !.func_name = "unknown"] }

TestedCalls ==
    { [NoCall EXCEPT !.agent = "base", !.op = "process_request", !.intent = i]
        : i \in {"balance", "swap", "transfer"} }
    \cup
    { [NoCall EXCEPT !.agent = "crypto_data", !.op = "process_request", !.intent = i]
        : i \in {"price", "invalid", "missing_argument"} }

AgentCalls ==
    TweetSizzlerCalls \cup ToolCalls("dexscreener", DexScreenerTools)
    \cup ToolCalls("elfa", ElfaTools) \cup DefaultCalls \cup TestedCalls

InitAgents ==
    /\ Init
    /\ selected_agents = AgentNames
    /\ loaded_agents = AgentNames
    /\ upload_required = {}
    /\ uploaded_file = FALSE
    /\ active_agent = NoAgent

\* A request reaches an agent.
ReceiveRequest ==
    /\ call = NoCall
    /\ call' \in AgentCalls
    /\ UNCHANGED <<attempted_agents, registry, pc, agent_name, log, outcome, http, answer, cache, chat_request, transcript, effects>>

\* The agent's _process_request runs to its end.
AgentProcessRequest ==
    /\ call.op = "process_request"
    /\ answer = NoAnswer
    /\ answer' = ProcessRequest(call)
    /\ effects' = ProcessRequestEffects(call)
    /\ UNCHANGED <<attempted_agents, registry, pc, agent_name, log, outcome, http, call, cache, chat_request, transcript>>

\* The agent's _execute_tool runs to its end.
AgentExecuteTool ==
    /\ call.op = "execute_tool"
    /\ answer = NoAnswer
    /\ answer' = ExecuteTool(call)
    /\ effects' = ExecuteToolEffects(call)
    /\ UNCHANGED <<attempted_agents, registry, pc, agent_name, log, outcome, http, call, cache, chat_request, transcript>>

NextAgents == ReceiveRequest \/ AgentProcessRequest \/ AgentExecuteTool

SpecAgents == InitAgents /\ [][NextAgents]_vars

\* ---- MORLLM.call, called on its own ----

\* A tool call of a completion: its function is in available_functions and
\* runs ("known"), is in available_functions and its arguments or its
\* execution raise ("raises"), or is not in available_functions ("unknown").
ToolCallKinds == {"known", "raises", "unknown", "no_id"}

\* The tool_calls of a completion's message, when the key is there.
ToolCallLists ==
    {<<>>} \cup { <<a>> : a \in ToolCallKinds }
    \cup { <<a, b>> : a, b \in ToolCallKinds }

\* What one HTTP request gives: requests.Timeout, another RequestException,
\* a body without choices[0].message, or a message.
Completions ==
    { [http |-> h, has_tool_calls |-> FALSE, tool_calls |-> <<>>]
        : h \in {"timeout", "failure", "no_message"} }
    \cup { [http |-> "ok", has_tool_calls |-> FALSE, tool_calls |-> <<>>] }
    \cup { [http |-> "ok", has_tool_calls |-> TRUE, tool_calls |-> tc]
             : tc \in ToolCallLists }

MorResult(kind, content, requests, exhausted) ==
    [kind |-> kind, content |-> content, requests |-> requests,
     executed |-> <<>>, stack_exhausted |-> exhausted, trace |-> <<>>]

\* r after the events ev, which happened before what r records.
After(ev, r) == [r EXCEPT !.trace = ev \o @]

\* Index of the first tool call whose function is in available_functions, 0
\* when there is none.
FirstAvailable(tool_calls) ==
    LET hits == { j \in DOMAIN tool_calls : tool_calls[j] # "unknown" }
    IN  IF hits = {} THEN 0 ELSE CHOOSE j \in hits : \A k \in hits : j <= k

RECURSIVE MorllmCall(_, _, _)

\* MORLLM._handle_function_calls for the completion of request i; next is
\* the outcome of the follow-up self.call of line 255.
HandleFunctionCalls(tool_calls, i, next) ==
    LET j == FirstAvailable(tool_calls)
    IN  IF j = 0
        THEN MorResult("returned", "no valid functions were executed", i, FALSE)
        ELSE IF tool_calls[j] = "raises"
        THEN MorResult("returned", "Function execution error", i, FALSE)
        ELSE IF tool_calls[j] = "no_id"
        THEN After(<< <<"assistant", i, j>> >>,
                   [MorResult("returned", "Function call failed", i, FALSE)
                      EXCEPT !.executed = << [request |-> i, index |-> j] >>])
        ELSE After(<< <<"assistant", i, j>>, <<"tool", i, j>> >>,
               [ (IF next.kind = "returned"
                  THEN next
                  ELSE [MorResult("returned", "Function execution error",
                                  next.requests, next.stack_exhausted)
                          EXCEPT !.trace = next.trace])
                 EXCEPT !.executed = << [request |-> i, index |-> j] >> \o next.executed ])

\* MORLLM.call: script[i] is what the i-th HTTP request of the call gives; a
\* call nested deeper than the script is long exhausts the interpreter's stack.
\* trace lists, in order, the runs of _prepare_messages, the HTTP requests
\* and the messages appended to the history.
MorllmCall(script, i, available_functions) ==
    IF i > Len(script)
    THEN MorResult("RecursionError", None, i - 1, TRUE)
    ELSE LET c == script[i]
         IN  After(<< <<"prepare", i>>, <<"request", i>> >>,
             CASE c.http = "timeout"    -> MorResult("TimeoutError", None, i, FALSE)
               [] c.http = "failure"    -> MorResult("RuntimeError", None, i, FALSE)
               [] c.http = "no_message" -> MorResult("ValueError", None, i, FALSE)
               [] OTHER ->
                    IF c.has_tool_calls /\ available_functions
                    THEN HandleFunctionCalls(c.tool_calls, i,
                             MorllmCall(script, i + 1, available_functions))
                    ELSE MorResult("returned", "content", i, FALSE))

\* MORLLM._prepare_messages on a message list whose last user message has
\* had the JSON-schema instruction appended n times: the number afterwards.
PrepareMessages(n, response_format) == IF response_format THEN n + 1 ELSE n

\* The number of instructions in the last user message after the runs of
\* _prepare_messages in trace, all made on the one message list.
RECURSIVE Instructions(_, _)
Instructions(trace, response_format) ==
    IF trace = <<>> THEN 0
    ELSE LET n == Instructions(SubSeq(trace, 1, Len(trace) - 1), response_format)
         IN  IF trace[Len(trace)][1] = "prepare"
             THEN PrepareMessages(n, response_format) ELSE n

MorCalls ==
    { [component |-> "MORLLM", script |-> s, available_functions |-> af,
       response_format |-> rf]
        : s \in [1..MaxRequests -> Completions], af \in BOOLEAN, rf \in BOOLEAN }

\* A caller prepares a call of MORLLM.call.
MorReceive ==
    /\ call = NoCall
    /\ call' \in MorCalls
    /\ UNCHANGED <<attempted_agents, registry, pc, agent_name, log, outcome, http, answer, cache, chat_request, transcript, effects>>

\* MORLLM.call runs to its end; answer also tells how many times the
\* instruction now stands in the last user message of the caller's list.
MorCall ==
    /\ call # NoCall
    /\ answer = NoAnswer
    /\ LET r == MorllmCall(call.script, 1, call.available_functions)
       IN  answer' = [instructions |-> Instructions(r.trace, call.response_format)] @@ r
    /\ UNCHANGED <<attempted_agents, registry, pc, agent_name, log, outcome, http, call, cache, chat_request, transcript, effects>>

NextMor == MorReceive \/ MorCall

SpecMor == InitAgents /\ [][NextMor]_vars

\* ---- get_secret, called on its own ----

\* What the AWS branch meets: boto3 missing, a ClientError of the service,
\* another exception of the client (no credentials, no connection), or a
\* SecretString that is raw text, a JSON object with or without the secret's
\* name as a key, or JSON that is not an object.
AwsOutcomes == {"ImportError", "ClientError", "NoCredentialsError", "string",
                "json_with_key", "json_without_key", "json_number"}

SecretResult(kind, value) == [kind |-> kind, value |-> value]

\* The body of get_secret (lines 26-71) for one name
GetSecret(env, conf, aws) ==
    IF env \notin {None, ""} THEN SecretResult("returned", env)
    ELSE IF conf # "absent" THEN SecretResult("returned", conf)
    ELSE CASE aws \in {"ImportError", "ClientError"} -> SecretResult("returned", None)
           [] aws = "NoCredentialsError"      -> SecretResult("raised", "NoCredentialsError")
           [] aws = "json_number"             -> SecretResult("raised", "TypeError")
           [] aws = "json_without_key"        -> SecretResult("returned", "aws_dict")
           [] OTHER                           -> SecretResult("returned", "aws_value")

\* The environment variable and the config entry of the secret's name
\* ("absent": CONF.has is false; "": an entry with an empty value).
SecretWorlds ==
    { [component |-> "get_secret", env |-> e, conf |-> c, aws |-> None]
        : e \in {None, "", "env_value"}, c \in {"absent", "", "conf_value"} }

\* The process starts with some environment and config.
SecretsReceive ==
    /\ call = NoCall
    /\ call' \in SecretWorlds
    /\ UNCHANGED <<attempted_agents, registry, pc, agent_name, log, outcome, http, answer, cache, chat_request, transcript, effects>>

\* get_secret(secret_name) through its lru_cache: a hit returns the cached
\* value, a miss runs the body and caches what it returns.
GetSecretCall ==
    /\ call # NoCall
    /\ \E aws \in AwsOutcomes :
        /\ call' = [call EXCEPT !.aws = aws]
        /\ IF cache.filled
           THEN /\ answer' = SecretResult("returned", cache.value)
                /\ UNCHANGED cache
           ELSE LET r == GetSecret(call.env, call.conf, aws)
                IN  /\ answer' = r
                    /\ cache' = IF r.kind = "returned"
                                THEN [filled |-> TRUE, value |-> r.value]
                                ELSE cache
    /\ UNCHANGED <<attempted_agents, registry, pc, agent_name, log, outcome, http, chat_request, transcript, effects>>

NextSecrets == SecretsReceive \/ GetSecretCall

SpecSecrets == InitAgents /\ [][NextSecrets]_vars

\* ---- load_agent_configs / load_agent_routes, called on their own ----

\* Longest directory listing of services/agents explored.
MaxListing == 2

\* An entry of os.listdir(agents_dir): a name the loaders skip ("special":
\* starts with "__" or holds a "."), a plain file, or an agent directory with
\* what loading its config.py and its routes.py meets.
DirEntries ==
    { [kind |-> k, config |-> "missing", routes |-> "missing"] : k \in {"special", "file"} }
    \cup { [kind |-> "dir", config |-> c, routes |-> r]
            : c \in {"missing", "raises", "disabled", "ok"},
              r \in {"missing", "raises", "no_router", "ok"} }

Listings == UNION { [1..n -> DirEntries] : n \in 0..MaxListing }

\* load_agent_config without its try / except.
LoadAgentConfigNoExcept(e) ==
    IF e.kind # "dir" \/ e.config = "missing" THEN "None"
    ELSE IF e.config = "raises" THEN "raised"
    ELSE IF e.config = "ok" THEN "config"
    ELSE "None"

\* load_agent_config
LoadAgentConfig(e) ==
    IF e.kind # "dir" \/ e.config = "missing" THEN "None"
    ELSE LET body == IF e.config = "raises" THEN "raised"
                     ELSE IF e.config = "ok" THEN "config"
                     ELSE "None"
         IN  IF body = "raised" THEN "None" ELSE body

\* One iteration of the loop of load_agent_routes
LoadAgentRoute(e) ==
    IF e.kind # "dir" \/ e.routes = "missing" THEN "None"
    ELSE LET body == IF e.routes = "raises" THEN "raised"
                     ELSE IF e.routes = "ok" THEN "router"
                     ELSE "None"
         IN  IF body = "raised" THEN "None" ELSE body

\* The loop of either loader: the positions whose entry loaded, in listing
\* order, unless an exception left an iteration.
Loaded(results, wanted) ==
    IF \E i \in DOMAIN results : results[i] = "raised"
    THEN [kind |-> "raised", value |-> <<>>]
    ELSE [kind |-> "returned",
          value |-> SelectSeq([i \in DOMAIN results |-> i],
                              LAMBDA i : results[i] = wanted)]

\* load_agent_configs
LoadAgentConfigs(listing) ==
    Loaded([i \in DOMAIN listing |->
               IF listing[i].kind = "special" THEN "None"
               ELSE LoadAgentConfig(listing[i])], "config")

\* load_agent_routes
LoadAgentRoutes(listing) ==
    Loaded([i \in DOMAIN listing |-> LoadAgentRoute(listing[i])], "router")

ConfigCalls ==
    { [component |-> "config", op |-> o, listing |-> l]
        : o \in {"load_agent_configs", "load_agent_routes"}, l \in Listings }

\* Startup finds some content in services/agents.
ConfigReceive ==
    /\ call = NoCall
    /\ call' \in ConfigCalls
    /\ UNCHANGED <<attempted_agents, registry, pc, agent_name, log, outcome, http, answer, cache, chat_request, transcript, effects>>

\* load_agent_configs runs to its end.
LoadConfigs ==
    /\ call # NoCall
    /\ call.op = "load_agent_configs"
    /\ answer = NoAnswer
    /\ answer' = LoadAgentConfigs(call.listing)
    /\ UNCHANGED <<attempted_agents, registry, pc, agent_name, log, outcome, http, call, cache, chat_request, transcript, effects>>

\* load_agent_routes runs to its end.
LoadRoutes ==
    /\ call # NoCall
    /\ call.op = "load_agent_routes"
    /\ answer = NoAnswer
    /\ answer' = LoadAgentRoutes(call.listing)
    /\ UNCHANGED <<attempted_agents, registry, pc, agent_name, log, outcome, http, call, cache, chat_request, transcript, effects>>

NextConfig == ConfigReceive \/ LoadConfigs \/ LoadRoutes

SpecConfig == InitAgents /\ [][NextConfig]_vars

\* ------------------------------------------------- GET /models/available
\* Longest "data" list of the MOR API response explored.
MaxModels == 2

\* One element of the "data" list of the MOR API response: a mapping with or
\* without "id" and "created", or something that is not a mapping.
ApiModels ==
    { [kind |-> "mapping", id |-> i, created |-> c]
        : i \in {"m1", "m2", None}, c \in {"created", None} }
    \cup { [kind |-> "other", id |-> None, created |-> None] }

ApiDataLists == UNION { [1..n -> ApiModels] : n \in 0..MaxModels }

\* What requests.get(.../models) and response.json() can end in.
\*   http "timeout"           requests.Timeout
\*   http "connection_error"  another RequestException of requests.get
\*   http "http_error"        raise_for_status raises HTTPError
\*   http "invalid_json"      the body is not JSON
\*   http "ok"                the body parses: json is "a_list" or "a_number"
\*                            (not a mapping), "no_data_key", "data_null"
\*                            or "data" (a mapping whose "data" is a list)
MorApiResponses ==
    { [http |-> h, json |-> None, data |-> <<>>]
        : h \in {"timeout", "connection_error", "http_error", "invalid_json"} }
    \cup { [http |-> "ok", json |-> j, data |-> <<>>]
             : j \in {"a_list", "a_number", "no_data_key", "data_null"} }
    \cup { [http |-> "ok", json |-> "data", data |-> d] : d \in ApiDataLists }

\* What response.json() raises on a body that is not JSON: requests'
\* JSONDecodeError, a RequestException in current releases of requests and a
\* plain ValueError in older ones.
JsonDecodeErrors == {"RequestException", "ValueError"}

\* ModelsController._format_model_label, kept as a tag on the id.
FormatModelLabel(model_id) == <<"label", model_id>>

\* The model_info mapping built for one element of "data", lines 55-69.
ModelInfo(model) ==
    LET model_id == IF model.id = None THEN "unknown" ELSE model.id
    IN  [value |-> model_id, label |-> FormatModelLabel(model_id), id |-> model_id,
         created |-> model.created, owned_by |-> "MOR"]

\* The default model appended at lines 75-82.
DefaultModelInfo ==
    [value |-> "default", label |-> FormatModelLabel("default"), id |-> "default",
     created |-> None, owned_by |-> None]

ModelsResult(kind, status, data) == [kind |-> kind, status |-> status, data |-> data]

\* get_available_models whose transformation keeps an empty list empty.
ControllerGetAvailableModelsNoDefault(api, decode_error) ==
    CASE api.http = "timeout" -> ModelsResult("HTTPException", 504, <<>>)
      [] api.http \in {"connection_error", "http_error"} ->
            ModelsResult("HTTPException", 502, <<>>)
      [] api.http = "invalid_json" ->
            ModelsResult("HTTPException",
                         IF decode_error = "RequestException" THEN 502 ELSE 500, <<>>)
      [] api.json \in {"a_number", "data_null"} -> ModelsResult("HTTPException", 500, <<>>)
      [] api.json = "data" /\ \E k \in DOMAIN api.data : api.data[k].kind = "other" ->
            ModelsResult("HTTPException", 500, <<>>)
      [] OTHER ->
            ModelsResult("returned", 200,
                         [k \in DOMAIN api.data |-> ModelInfo(api.data[k])])

\* ModelsController.get_available_models: the mapping it returns (kind
\* "returned", its "data" list) or the HTTPException it raises.
ControllerGetAvailableModels(api, decode_error) ==
    CASE api.http = "timeout" -> ModelsResult("HTTPException", 504, <<>>)
      [] api.http \in {"connection_error", "http_error"} ->
            ModelsResult("HTTPException", 502, <<>>)
      [] api.http = "invalid_json" ->
            ModelsResult("HTTPException",
                         IF decode_error = "RequestException" THEN 502 ELSE 500, <<>>)
      [] api.json \in {"a_number", "data_null"} -> ModelsResult("HTTPException", 500, <<>>)
      [] api.json = "data" /\ \E k \in DOMAIN api.data : api.data[k].kind = "other" ->
            ModelsResult("HTTPException", 500, <<>>)
      [] OTHER ->
            LET models == [k \in DOMAIN api.data |-> ModelInfo(api.data[k])]
            IN  ModelsResult("returned", 200,
                             IF models = <<>> THEN <<DefaultModelInfo>> ELSE models)

\* The route GET /models/available, models_routes.py:20-36: what the HTTP
\* client gets.  The controller's HTTPException is caught by the route's
\* except Exception and raised again with status 500.
RouteGetAvailableModels(result) ==
    IF result.kind = "returned" THEN result
    ELSE ModelsResult("HTTPException", 500, <<>>)

ModelsCalls == { [component |-> "models", api |-> a] : a \in MorApiResponses }

\* A client asks for the available models; the MOR API will answer somehow.
ModelsReceive ==
    /\ call = NoCall
    /\ call' \in ModelsCalls
    /\ UNCHANGED <<attempted_agents, registry, pc, agent_name, log, outcome, http, answer, cache, chat_request, transcript, effects>>

\* The route handler runs to its end: answer holds what the controller gave
\* and what the client got.
GetAvailableModels ==
    /\ call # NoCall
    /\ answer = NoAnswer
    /\ \E decode_error \in JsonDecodeErrors :
          LET result == ControllerGetAvailableModels(call.api, decode_error)
          IN  answer' = [controller |-> result, client |-> RouteGetAvailableModels(result)]
    /\ UNCHANGED <<attempted_agents, registry, pc, agent_name, log, outcome, http, call, cache, chat_request, transcript, effects>>

NextModels == ModelsReceive \/ GetAvailableModels

SpecModels == InitAgents /\ [][NextModels]_vars

\* ------------------------------------------------- the crypto-data tools
CoinTools == {"get_coin_price_tool", "get_nft_floor_price_tool",
              "get_fully_diluted_valuation_tool", "get_coin_market_cap_tool"}

TvlTool == "get_protocol_total_value_locked_tool"

\* What a function gave: a value it returned or an exception it raised, and
\* the HTTP requests it made, in order.
ToolResult(kind, value, requests) == [kind |-> kind, value |-> value, requests |-> requests]

\* get_coingecko_id.  search is what GET /search ends in: "request_fails",
\* "no_match" (the list is empty), "match", or "malformed" (the body has no
\* "coins" / "nfts" key).
GetCoingeckoId(search, type) ==
    CASE search = "request_fails" -> ToolResult("raised", "RequestException", <<"search">>)
      [] search = "no_match" -> ToolResult("returned", None, <<"search">>)
      [] search = "malformed" ->
            IF type = "coin" THEN ToolResult("raised", "KeyError", <<"search">>)
            ELSE ToolResult("returned", None, <<"search">>)
      [] OTHER -> ToolResult("returned", "id", <<"search">>)

\* get_price / get_floor_price / get_fdv / get_market_cap.  lookup is what
\* the second request ends in: "request_fails", "value", "null" (the field
\* is there and null) or "malformed" (the field is not in the body).
Lookup(tool, search, lookup) ==
    LET id == GetCoingeckoId(search, IF tool = "get_nft_floor_price_tool" THEN "nft" ELSE "coin")
        requests == id.requests \o <<tool>>
    IN  IF id.kind = "raised" THEN id
        ELSE IF id.value = None THEN ToolResult("returned", None, id.requests)
        ELSE CASE lookup = "request_fails" ->
                      ToolResult("raised", "RequestException", requests)
               [] lookup = "value" -> ToolResult("returned", "value", requests)
               [] lookup = "null" -> ToolResult("returned", None, requests)
               [] OTHER ->
                      CASE tool = "get_fully_diluted_valuation_tool" ->
                              ToolResult("returned", None, requests)
                        [] tool = "get_coin_market_cap_tool" ->
                              ToolResult("raised", "IndexError", requests)
                        [] OTHER -> ToolResult("raised", "KeyError", requests)

\* get_protocol_tvl.  protocols is what GET /protocols ends in, gecko_match
\* whether a protocol has the CoinGecko id found, similar whether a protocol
\* name resembles the text, tvl what GET /tvl/<id> ends in: "request_fails",
\* a "number", or a "mapping" with a "tvl" key.
GetProtocolTvl(w) ==
    LET tag == GetCoingeckoId(w.search, "coin")
        listed == <<"protocols">> \o tag.requests
        asked == listed \o <<"tvl">>
    IN  IF w.protocols = "request_fails"
        THEN ToolResult("raised", "RequestException", <<"protocols">>)
        ELSE IF tag.kind = "raised" THEN ToolResult("raised", tag.value, listed)
        ELSE IF tag.value # None /\ w.gecko_match
        THEN IF w.tvl = "request_fails"
             THEN ToolResult("raised", "RequestException", asked)
             ELSE ToolResult("returned", "value", asked)
        ELSE IF w.similar = "none" THEN ToolResult("returned", None, listed)
        ELSE CASE w.tvl = "request_fails" ->
                      ToolResult("raised", "RequestException", asked)
               [] w.tvl = "number" -> ToolResult("raised", "TypeError", asked)
               [] OTHER -> ToolResult("returned", "value", asked)

\* get_coin_price_tool .. get_coin_market_cap_tool: the message returned, or
\* the exception that leaves the wrapper.
CryptoTool(w) ==
    LET r == IF w.tool = TvlTool THEN GetProtocolTvl(w)
             ELSE Lookup(w.tool, w.search, w.lookup)
    IN  IF r.kind = "raised"
        THEN IF r.value = "RequestException"
             THEN ToolResult("returned", <<"API_ERROR_MESSAGE">>, r.requests)
             ELSE r
        ELSE IF r.value = None THEN ToolResult("returned", <<"FAILURE_MESSAGE", w.tool>>, r.requests)
        ELSE ToolResult("returned", <<"SUCCESS_MESSAGE", w.tool>>, r.requests)

SearchOutcomes == {"request_fails", "no_match", "match", "malformed"}

CryptoCalls ==
    { [component |-> "crypto_data.tools", tool |-> t, search |-> se, lookup |-> l,
       protocols |-> None, gecko_match |-> FALSE, similar |-> None, tvl |-> None]
        : t \in CoinTools, se \in SearchOutcomes,
          l \in {"request_fails", "value", "null", "malformed"} }
    \cup
    { [component |-> "crypto_data.tools", tool |-> TvlTool, search |-> se, lookup |-> None,
       protocols |-> pr, gecko_match |-> g, similar |-> si, tvl |-> tv]
        : se \in SearchOutcomes, pr \in {"request_fails", "ok"}, g \in BOOLEAN,
          si \in {"none", "some"}, tv \in {"request_fails", "number", "mapping"} }

\* A tool wrapper is called; CoinGecko and DefiLlama will answer somehow.
CryptoReceive ==
    /\ call = NoCall
    /\ call' \in CryptoCalls
    /\ UNCHANGED <<attempted_agents, registry, pc, agent_name, log, outcome, http, answer, cache, chat_request, transcript, effects>>

\* The wrapper runs to its end.
CryptoToolCall ==
    /\ call # NoCall
    /\ answer = NoAnswer
    /\ answer' = [kind |-> CryptoTool(call).kind, value |-> CryptoTool(call).value]
    /\ effects' = CryptoTool(call).requests
    /\ UNCHANGED <<attempted_agents, registry, pc, agent_name, log, outcome, http, call, cache, chat_request, transcript>>

NextCrypto == CryptoReceive \/ CryptoToolCall

SpecCrypto == InitAgents /\ [][NextCrypto]_vars

\* ----------------------------------------------- MORLLM._process_response
\* Longest completion text explored, in pieces.
MaxPieces == 2

\* A completion text is a sequence of pieces: plain text "a" or one of the
\* stop words "s1", "s2".  A completion whose "content" is null has no text.
Texts == UNION { [1..n -> {"a", "s1", "s2"}] : n \in 0..MaxPieces }

\* self.stop, in configured order.
StopLists == { <<>>, <<"s1">>, <<"s1", "s2">>, <<"s2", "s1">> }

\* content.split(stop_word)[0]
CutBefore(text, stop_word) ==
    LET at == CHOOSE k \in DOMAIN text :
                  text[k] = stop_word /\ \A l \in 1..(k - 1) : text[l] # stop_word
    IN  SubSeq(text, 1, at - 1)

\* Lines 92-96: the text cut before the first stop word of the list that it
\* holds.
RECURSIVE CutAtStop(_, _)
CutAtStop(text, stop) ==
    IF stop = <<>> THEN text
    ELSE IF \E k \in DOMAIN text : text[k] = Head(stop)
    THEN CutBefore(text, Head(stop))
    ELSE CutAtStop(text, Tail(stop))

ProcessResult(kind, value) == [kind |-> kind, value |-> value]

\* Lines 109-146 for one extracted fragment: "valid" validates, "invalid"
\* does not, "array" is a JSON array that validates once wrapped as the
\* assignments of an AssignmentPlan.
ValidateFragment(fragment, response_format, where, content) ==
    IF fragment = "valid" THEN ProcessResult("returned", <<"model", where>>)
    ELSE IF fragment = "array" /\ response_format = "AssignmentPlan"
    THEN ProcessResult("returned", <<"model", "assignments">>)
    ELSE ProcessResult("returned", content)

\* MORLLM._process_response.  w.text is the content (w.is_none: the content
\* is None); w.whole, w.markdown, w.fallback tell how the text, the JSON of
\* its markdown block and its outermost brackets validate ("none": no such
\* fragment).
ProcessResponse(w) ==
    IF w.stop # <<>> /\ w.is_none THEN ProcessResult("raised", "TypeError")
    ELSE LET content == IF w.is_none THEN None ELSE <<"text", CutAtStop(w.text, w.stop)>>
         IN  IF w.response_format = "none" THEN ProcessResult("returned", content)
             ELSE IF w.is_none THEN ProcessResult("returned", None)
             ELSE IF w.whole = "valid" THEN ProcessResult("returned", <<"model", "content">>)
             ELSE IF w.markdown # "none"
             THEN ValidateFragment(w.markdown, w.response_format, "markdown", content)
             ELSE IF w.fallback # "none"
             THEN ValidateFragment(w.fallback, w.response_format, "fallback", content)
             ELSE ProcessResult("returned", content)

ProcessCalls ==
    { [component |-> "MORLLM._process_response", is_none |-> FALSE, text |-> t,
       stop |-> st, response_format |-> rf, whole |-> wh, markdown |-> md, fallback |-> fb]
        : t \in Texts, st \in StopLists,
          rf \in {"none", "model", "AssignmentPlan"}, wh \in {"valid", "invalid"},
          md \in {"none", "valid", "invalid", "array"},
          fb \in {"none", "valid", "invalid", "array"} }
    \cup
    { [component |-> "MORLLM._process_response", is_none |-> TRUE, text |-> <<>>,
       stop |-> st, response_format |-> rf, whole |-> "invalid", markdown |-> "none",
       fallback |-> "none"]
        : st \in StopLists, rf \in {"none", "model", "AssignmentPlan"} }

\* MORLLM.call has a completion without tool handling in hand (line 202).
ProcessReceive ==
    /\ call = NoCall
    /\ call' \in ProcessCalls
    /\ UNCHANGED <<attempted_agents, registry, pc, agent_name, log, outcome, http, answer, cache, chat_request, transcript, effects>>

\* _process_response runs to its end.
ProcessResponseCall ==
    /\ call # NoCall
    /\ answer = NoAnswer
    /\ answer' = ProcessResponse(call)
    /\ UNCHANGED <<attempted_agents, registry, pc, agent_name, log, outcome, http, call, cache, chat_request, transcript, effects>>

NextProcess == ProcessReceive \/ ProcessResponseCall

SpecProcess == InitAgents /\ [][NextProcess]_vars

\* -------------------------------------------------------------- properties
Last(s) == s[Len(s)]

\* The agents handed to delegate_chat so far in turn t, in order.
CalledAgents(t) == [i \in DOMAIN Calls(t) |-> Calls(t)[i].agent]

\* The entries of turn t's log whose kind is in kinds.
Entries(t, kinds) == SelectSeq(log[t], LAMBDA e : e.kind \in kinds)

\* The calls of _try_next_agent made so far in turn t: one per candidate that
\* was unselected, not loaded, or raised.
Cascades(t) == Len(Entries(t, {"unselected", "not_loaded", "raised"}))

NoDuplicates(s) == \A i, j \in DOMAIN s : i # j => s[i] # s[j]

\* C1: in every reachable state the list get_available_unattempted_agents
\* returns holds no attempted agent, no unselected agent, no upload-required
\* agent while no file is uploaded, and never the default agent.
C1_EligibleListSound ==
    \A i \in DOMAIN GetAvailableUnattemptedAgents :
        LET c == GetAvailableUnattemptedAgents[i]
        IN  /\ c.name \notin attempted_agents
            /\ c.name \in selected_agents
            /\ ~(c.name \in upload_required /\ ~uploaded_file)
            /\ c.name # DefaultAgent

\* A cascade step about to select: every agent loaded and selected, "base"
\* already attempted, and the list holds "crypto_data" alone.
C1_Witness ==
    /\ pc[1] = "try_next"
    /\ attempted_agents = {"base"}
    /\ selected_agents = AgentNames
    /\ loaded_agents = AgentNames
    /\ Len(GetAvailableUnattemptedAgents) = 1
    /\ GetAvailableUnattemptedAgents[1].name = "crypto_data"

\* C2: a call of delegate_chat terminates; the recursion through
\* _try_next_agent is entered at most as many times as there are distinct
\* agents and ends with an agent's response or with exhaustion.
C2_CascadeBoundedByAgents ==
    \A t \in Turns :
        /\ Cascades(t) <= Cardinality(AgentNames)
        /\ Entries(t, {"recursion_error"}) = <<>>

\* C3: within one turn no agent is handed to delegate_chat more than once.
C3_NoAgentDelegatedTwice ==
    \A t \in Turns : NoDuplicates(CalledAgents(t))

\* C4: every agent name get_delegator_response returns, from the model's
\* choice or from the default branch, is in attempted_agents when the call
\* returns.
C4_SelectionRecorded ==
    \A t \in Turns :
        (pc[t] = "delegate" /\ Last(log[t]).kind \in {"llm", "default"})
            => agent_name[t] \in attempted_agents

\* C5: with an empty eligible set get_delegator_response gives the default
\* agent when it has not been attempted and ValueError otherwise; so within
\* one turn a call that gave the default agent is never followed by another
\* call that gives it again.
C5_DefaultOfferedOnce ==
    /\ GetAvailableUnattemptedAgents = <<>> =>
          \A r \in GetDelegatorResponse :
              r.kind = IF DefaultAgent \in attempted_agents THEN "exhausted" ELSE "default"
    /\ \A t \in Turns : Len(Entries(t, {"default"})) <= 1

\* Scenario A in turn t: "base", "crypto_data" and the default agent are
\* selected and loaded, the turn started from a specialised agent, no
\* invocation of "base" or "crypto_data" has returned and none of the default
\* agent has raised.
ScenarioA(t) ==
    /\ selected_agents = AgentNames
    /\ loaded_agents = AgentNames
    /\ Calls(t) # <<>>
    /\ Calls(t)[1].agent \in {"base", "crypto_data"}
    /\ \A i \in DOMAIN log[t] :
          /\ log[t][i].agent \in {"base", "crypto_data"} => log[t][i].kind # "returned"
          /\ log[t][i].agent = DefaultAgent => log[t][i].kind # "raised"

\* delegate_chat returned ("default agent", the default agent's response), and
\* the default agent is the last agent invoked.
EndsWithDefaultAgent(t) ==
    /\ outcome[t].kind = "returned"
    /\ outcome[t].agent = DefaultAgent
    /\ Last(log[t]) = Entry("returned", DefaultAgent, outcome[t].response)

NamedNoAgent(t) == \E i \in DOMAIN log[t] : log[t][i] = Entry("llm", NoAgent, NoReply)

C7_StaleAgentCascades ==
    \A t \in Turns :
        \A i \in DOMAIN log[t] :
            log[t][i].kind \in {"unselected", "not_loaded"} =>
                /\ \A j \in DOMAIN log[t] :
                      (j > i /\ log[t][j].agent = log[t][i].agent)
                          => log[t][j].kind \notin {"raised", "returned", "llm", "default"}
                /\ (pc[t] = "done" /\ Entries(t, {"llm_raise", "llm_timeout"}) = <<>>)
                      => outcome[t].kind = "returned"

\* C8: when the invoked agent returns normally, delegate_chat returns (that
\* agent's name, that response) unchanged, makes no further selection or
\* cascade step and leaves attempted_agents as it was; delegate_chat goes on
\* to _try_next_agent only when the agent raised (or was not invoked at all).
C8_NormalReturnPassesThrough ==
    [][\A t \in Turns :
          /\ (pc[t] = "delegate" /\ pc'[t] = "done") =>
                /\ Last(log'[t]).kind = "returned"
                /\ Last(log'[t]).agent = agent_name[t]
                /\ outcome'[t] = [kind |-> "returned", agent |-> agent_name[t],
                                  response |-> Last(log'[t]).reply]
                /\ log'[t] = Append(log[t], Last(log'[t]))
                /\ attempted_agents' = attempted_agents
          /\ (pc[t] = "delegate" /\ Last(log'[t]).kind = "returned") =>
                pc'[t] = "done"
          /\ (pc[t] = "delegate" /\ pc'[t] = "try_next") =>
                Last(log'[t]).kind \in {"raised", "unselected", "not_loaded"}]_vars

\* Scenario D: the first selected agent returned a response of type error,
\* which is the turn's result; attempted_agents holds that agent alone.
C8_Witness ==
    /\ pc[1] = "done"
    /\ outcome[1].kind = "returned"
    /\ outcome[1].agent = "base"
    /\ outcome[1].response = [shape |-> "message", response_type |-> "error", status_code |-> 0]
    /\ attempted_agents = {"base"}
    /\ Len(log[1]) = 2

\* C9: after N selected candidates have failed, attempted_agents holds
\* exactly N entries: the N distinct names selected in the turn.
C9_AttemptedCountsFailures ==
    \A t \in Turns :
        pc[t] = "try_next" =>
            LET selections == Entries(t, {"llm", "default"})
            IN  /\ Cardinality(attempted_agents) = Len(selections)
                /\ attempted_agents = { selections[i].agent : i \in DOMAIN selections }

C11_ResetOnceThenGrows ==
    [][\A t \in Turns :
          /\ pc'[t] = "select" =>
                (pc[t] \in {"idle", "select"} /\ attempted_agents' = {} /\ log'[t] = <<>>)
          /\ pc[t] \in {"select", "delegate", "try_next"} =>
                attempted_agents \subseteq attempted_agents'
          /\ ~(attempted_agents \subseteq attempted_agents') =>
                \E u \in Turns : pc[u] = "idle" /\ pc'[u] = "select"]_vars

\* A cascade that has accumulated two attempts.
C11_Witness ==
    /\ pc[1] = "try_next"
    /\ attempted_agents = {"base", "crypto_data"}
    /\ Len(Entries(1, {"llm"})) = 2

\* C13: a cascade with no candidate left (the eligible list is empty and the
\* default agent has been tried in this turn) ends the turn there:
\* delegate_chat returns agent name None with the error value.
C13_ExhaustedCascadeReturnsError ==
    [][\A t \in Turns :
          (/\ pc[t] = "try_next"
           /\ pc'[t] # pc[t]
           /\ GetAvailableUnattemptedAgents = <<>>
           /\ \E i \in DOMAIN CalledAgents(t) : CalledAgents(t)[i] = DefaultAgent)
              => /\ pc'[t] = "done"
                 /\ outcome'[t] = [kind |-> "returned", agent |-> NoAgent,
                                   response |-> CascadeError]]_vars

\* The steps of turn t that are selections, and those that are failures of a
\* candidate.
Selections(t) == Entries(t, {"llm", "default", "exhausted", "no_tool_call", "llm_raise", "llm_timeout"})

Failures(t) == Entries(t, {"unselected", "not_loaded", "raised"})

\* C14 as stated: with an agent pinned, get_delegator_response is never run
\* in the turn and no agent other than the pinned one is invoked.
C14_PinnedBypassesDelegation_Original ==
    \A t \in Turns :
        (active_agent # NoAgent /\ pc[t] \in {"delegate", "try_next", "done"}) =>
            /\ Selections(t) = <<>>
            /\ \A i \in DOMAIN log[t] :
                  log[t][i].kind \in {"raised", "returned"} => log[t][i].agent = active_agent

\* C14 amended: with an agent pinned, the turn's first delegate_chat call is
\* for the pinned agent and no selection precedes it; as long as the pinned
\* agent has not failed (unselected, not loaded, raised), no selection is run
\* and no other agent is invoked.  Once it has failed, the cascade selects.
C14_PinnedBypassesFirstSelection ==
    \A t \in Turns :
        (active_agent # NoAgent /\ pc[t] \in {"delegate", "try_next", "done"}) =>
            /\ log[t][1] = Entry("pinned", active_agent, NoReply)
            /\ Failures(t) = <<>> =>
                  /\ Selections(t) = <<>>
                  /\ \A i \in DOMAIN log[t] : log[t][i].agent = active_agent
            /\ Selections(t) # <<>> => Failures(t)[1].agent = active_agent

\* The pinned agent answered: the turn made no selection.
C14_Witness ==
    /\ active_agent = "base"
    /\ pc[1] = "done"
    /\ log[1] = << Entry("pinned", "base", NoReply),
                   Entry("returned", "base",
                         [shape |-> "message", response_type |-> "success", status_code |-> 0]) >>
    /\ attempted_agents = {}

\* C15: a selection in which the model returns no tool call ends the turn at
\* that step: ValueError out of get_delegator_response at the first
\* selection, the error result out of _try_next_agent inside a cascade;
\* attempted_agents is not changed by the step, and the turn selects and
\* invokes nothing after it.
C15_NoToolCallEndsTurn ==
    [][\A t \in Turns :
          /\ (log'[t] # log[t] /\ log'[t] # <<>> /\ Last(log'[t]).kind = "no_tool_call") =>
                /\ pc'[t] = "done"
                /\ attempted_agents' = attempted_agents
                /\ agent_name'[t] = agent_name[t]
                /\ outcome'[t] =
                      IF pc[t] = "select"
                      THEN [kind |-> "selection_value_error", agent |-> NoAgent,
                            response |-> NoReply]
                      ELSE [kind |-> "returned", agent |-> NoAgent,
                            response |-> CascadeError]
          /\ Entries(t, {"no_tool_call"}) # <<>> =>
                (log'[t] = log[t] \/ (log'[t] = <<>> /\ pc'[t] = "idle"))]_vars

\* The model returned no tool call inside a cascade: "base" had raised.
C15_Witness ==
    /\ pc[1] = "done"
    /\ Last(log[1]).kind = "no_tool_call"
    /\ Entries(1, {"raised"}) # <<>>
    /\ outcome[1] = [kind |-> "returned", agent |-> NoAgent, response |-> CascadeError]

\* C12: reset_attempted_agents is idempotent and touches nothing else: a call
\* leaves attempted_agents empty and the registry (agents, selected set,
\* loaded set) as it was, and a call that directly follows another call
\* leaves the state the first call produced.
C12_ResetIdempotent ==
    [][(log'[1] # log[1] /\ log'[1] # <<>> /\ Last(log'[1]).kind = "reset") =>
          /\ attempted_agents' = {}
          /\ registry' = registry
          /\ (log[1] # <<>> /\ Last(log[1]).kind = "reset") =>
                attempted_agents' = attempted_agents]_vars

\* A selection recorded "base", then reset was called twice in a row.
C12_Witness ==
    /\ Len(log[1]) = 3
    /\ log[1][1] = Entry("llm", "base", NoReply)
    /\ log[1][2].kind = "reset"
    /\ log[1][3].kind = "reset"
    /\ attempted_agents = {}

\* C16: an unexpected failure of an agent's external call makes the Delegator
\* cascade: when the LLM call of DexScreenerAgent's or DefaultAgent's request
\* processing raises, delegate_chat goes on to _try_next_agent.
C16_TransportFailureCascades ==
    (/\ answer # NoAnswer
     /\ call.op = "process_request"
     /\ call.agent \in {"dexscreener", "default"}
     /\ call.llm = "raises")
        => DelegateChatOnAgent(answer) = "try_next_agent"

\* The requests that carry an expected domain error.
ExpectedDomainError(c) ==
    \/ /\ c.agent = "tweet_sizzler"
       /\ c.messages = "ok"
       /\ \/ c.content_kind = "dict" /\ c.action = "post" /\ c.metadata # "credentials"
          \/ c.content_kind = "dict" /\ c.action \notin {"generate", "post"}
          \/ (c.content_kind = "str" \/ c.action = "generate") /\ c.content = ""
    \/ c.agent = "crypto_data" /\ c.intent \in {"invalid", "missing_argument"}

\* C17: request processing does not raise for an expected domain error: no
\* request makes TweetSizzlerAgent._process_request raise, a post without
\* metadata or credentials, an unsupported action and an empty prompt give a
\* returned error response, and CryptoDataAgent's unhandled or incomplete
\* request gives needs_info.
C17_DomainErrorsAreReturned ==
    (answer # NoAnswer /\ call.op = "process_request") =>
        /\ call.agent \in {"tweet_sizzler", "crypto_data"} => answer.response_type # "raised"
        /\ ExpectedDomainError(call) =>
              answer.response_type =
                  IF call.agent = "tweet_sizzler" THEN "error" ELSE "needs_info"
        /\ (/\ call.agent = "tweet_sizzler" /\ call.messages = "ok"
            /\ call.content_kind = "dict" /\ call.action = "post"
            /\ call.metadata \in {"none", "no_credentials"}) =>
              answer = AgentResponseError("ERROR_MISSING_API_CREDENTIALS")
        /\ (/\ call.agent = "tweet_sizzler" /\ call.messages = "ok"
            /\ call.content_kind = "dict" /\ call.action = "delete") =>
              answer = AgentResponseError("ERROR_INVALID_ACTION")

\* TweetSizzlerAgent was asked to post without metadata and returned the error.
C17_Witness ==
    /\ call.agent = "tweet_sizzler"
    /\ call.messages = "ok"
    /\ call.action = "post"
    /\ call.metadata = "none"
    /\ answer = AgentResponseError("ERROR_MISSING_API_CREDENTIALS")

\* C18 as stated: a returned response has an action_type if and only if its
\* response_type is action_required.
C18_ActionTypeIffActionRequired_Original ==
    answer # NoAnswer =>
        (answer.action_type # None <=> answer.response_type = "action_required")

\* The responses DexScreenerAgent and ElfaAgent build from a tool's result.
IsToolResult(c) ==
    /\ c.agent \in {"dexscreener", "elfa"}
    /\ c.op = "execute_tool" \/ c.llm = "tool_call"

\* C18 amended: an action_required response carries an action_type (swap and
\* transfer give "swap" and "transfer"), an error or needs_info response
\* carries none, and a success response carries one exactly when it is the
\* result of a DexScreenerAgent or ElfaAgent tool, tagged with the tool's name.
C18_ActionTypeByBuilder ==
    answer # NoAnswer =>
        /\ answer.response_type = "action_required" =>
              (answer.action_type # None /\ answer.action_type = call.intent)
        /\ call.intent \in {"swap", "transfer"} =>
              answer.response_type = "action_required"
        /\ answer.response_type \in {"error", "needs_info"} => answer.action_type = None
        /\ answer.response_type = "success" =>
              /\ answer.action_type # None <=> IsToolResult(call)
              /\ IsToolResult(call) => answer.action_type = call.func_name

\* DexScreenerAgent's search tool succeeded: a success response with a tag.
C18_Witness ==
    /\ call.agent = "dexscreener"
    /\ call.op = "execute_tool"
    /\ answer = AgentResponseSuccess("formatted_response", "search_dex_pairs")

\* C19: a returned response has an error_message if and only if its
\* response_type is error.
C19_ErrorMessageIffError ==
    answer # NoAnswer =>
        (answer.error_message # None <=> answer.response_type = "error")

\* TweetSizzlerAgent's post failed at the API: an error response with its message.
C19_Witness ==
    /\ call.agent = "tweet_sizzler"
    /\ call.action = "post"
    /\ call.metadata = "credentials"
    /\ call.api = "raises"
    /\ answer = AgentResponseError("Failed to post tweet")

\* The calls AgentResponse.success(content=X) of tweet_sizzler/agent.py:36 and
\* default/agent.py:52, with the X they pass; None where another line answers.
SuccessContent(c) ==
    IF /\ c.agent = "tweet_sizzler" /\ c.messages = "ok"
       /\ (c.content_kind = "str" \/ c.action = "generate")
       /\ c.content # "" /\ c.llm # "raises"
    THEN "tweet"
    ELSE IF c.agent = "default" /\ c.op = "process_request"
            /\ c.llm # "raises" /\ c.content # ""
    THEN Strip(c.content)
    ELSE None

Received == { i \in 1..Len(call.script) : i <= answer.requests }

\* C21: when the call returns, every tool call of every completion it has
\* received whose function is in available_functions has been executed.
C21_EveryRequestedToolRuns ==
    (answer # NoAnswer /\ call.available_functions /\ answer.kind = "returned") =>
        \A i \in Received :
            (call.script[i].http = "ok" /\ call.script[i].has_tool_calls) =>
                \A j \in DOMAIN call.script[i].tool_calls :
                    call.script[i].tool_calls[j] = "known" =>
                        \E k \in DOMAIN answer.executed :
                            answer.executed[k] = [request |-> i, index |-> j]

\* C22: the call with available_functions ends without exhausting the
\* interpreter's stack, whatever the completions ask for.
C22_ToolLoopBounded ==
    (answer # NoAnswer /\ call.available_functions) => ~answer.stack_exhausted

\* C23: the call raises TimeoutError when the last request it made timed out,
\* RuntimeError when it failed otherwise and ValueError when its body had no
\* choices[0].message, be it the first request or a follow-up.
C23_RequestFailuresRaise ==
    (answer # NoAnswer /\ answer.requests \in DOMAIN call.script) =>
        LET last == call.script[answer.requests]
        IN  /\ last.http = "timeout"    => answer.kind = "TimeoutError"
            /\ last.http = "failure"    => answer.kind = "RuntimeError"
            /\ last.http = "no_message" => answer.kind = "ValueError"

\* C24: get_secret returns the environment value when it is set and not
\* empty, else the config value when the config has the name, else the value
\* AWS Secrets Manager holds, and None when the secret is nowhere.
C24_SecretPriorityOrder ==
    answer # NoAnswer =>
        answer =
            IF call.env \notin {None, ""} THEN SecretResult("returned", call.env)
            ELSE IF call.conf # "absent" THEN SecretResult("returned", call.conf)
            ELSE IF call.aws \in {"string", "json_with_key", "json_number"}
            THEN SecretResult("returned", "aws_value")
            ELSE IF call.aws = "json_without_key"
            THEN SecretResult("returned", "aws_dict")
            ELSE SecretResult("returned", None)

\* The directories of the listing whose module loads correctly.
LoadsCorrectly(e, op) ==
    /\ e.kind = "dir"
    /\ IF op = "load_agent_configs" THEN e.config = "ok" ELSE e.routes = "ok"

\* C25: no exception leaves load_agent_configs / load_agent_routes, and the
\* returned list holds, in listing order, exactly the agents whose module
\* loads correctly: one that throws is skipped and the others are kept.
C25_LoadingIsolatedPerAgent ==
    answer # NoAnswer =>
        /\ answer.kind = "returned"
        /\ \A i \in DOMAIN call.listing :
              (\E k \in DOMAIN answer.value : answer.value[k] = i)
                  <=> LoadsCorrectly(call.listing[i], call.op)
        /\ \A k, l \in DOMAIN answer.value : k < l => answer.value[k] < answer.value[l]

\* The first agent's config module throws, the second loads: the list holds
\* the second.
C25_Witness ==
    /\ answer # NoAnswer
    /\ call.op = "load_agent_configs"
    /\ Len(call.listing) = 2
    /\ call.listing[1].kind = "dir" /\ call.listing[1].config = "raises"
    /\ call.listing[2].kind = "dir" /\ call.listing[2].config = "ok"
    /\ answer = [kind |-> "returned", value |-> <<2>>]

\* The names get_delegator_response offers to the model in the current state.
OfferedNames ==
    { GetAvailableUnattemptedAgents[i].name : i \in DOMAIN GetAvailableUnattemptedAgents }

\* C26: every name get_delegator_response returns is "default agent" or one of
\* the eligible names it computed in that call, and nothing else is added to
\* attempted_agents: a tool call without an agent argument is never returned
\* or recorded.
C26_ReturnedNameWasOffered ==
    [][\A t \in Turns :
          (/\ Len(log'[t]) = Len(log[t]) + 1
           /\ Last(log'[t]).kind \in {"llm", "default"})
              => /\ Last(log'[t]).agent \in OfferedNames \cup {DefaultAgent}
                 /\ attempted_agents' \subseteq attempted_agents \cup OfferedNames]_vars

\* The invocations of agent.chat made so far in turn t.
Invocations(t) == Entries(t, {"returned", "raised"})

\* C27: when delegate_chat returns (name, result) with a name, result is what
\* the chat of that agent returned, the agent was selected and loaded, and it
\* is the last agent invoked in the turn; when the name is None, result is the
\* error mapping and no agent's response is returned.
C27_ReturnedPairIsLastAgents ==
    \A t \in Turns :
        (pc[t] = "done" /\ outcome[t].kind = "returned") =>
            IF outcome[t].agent # NoAgent
            THEN /\ Last(log[t]) = Entry("returned", outcome[t].agent, outcome[t].response)
                 /\ Last(Invocations(t)) = Last(log[t])
                 /\ outcome[t].agent \in selected_agents \cap loaded_agents
                 /\ outcome[t].response \in AgentReplies
            ELSE /\ outcome[t].response = CascadeError
                 /\ Entries(t, {"returned"}) = <<>>

\* A turn whose first agent raised and whose cascade ended with another
\* agent's reply.
C27_Witness ==
    /\ pc[1] = "done"
    /\ outcome[1].kind = "returned"
    /\ outcome[1].agent \in AgentNames
    /\ Len(Invocations(1)) >= 2
    /\ Invocations(1)[1].kind = "raised"
    /\ Invocations(1)[1].agent # outcome[1].agent

\* C28: every selection of a turn is given the prompt of the turn's request
\* and every agent invoked in the turn is given that request: no step of the
\* cascade, and no failed agent, changes it.
C28_CascadeKeepsOriginalRequest ==
    [][\A t \in Turns :
          pc[t] \in {"select", "delegate", "try_next"}
              => /\ chat_request[t] = Prompt(t)
                 /\ chat_request'[t] = Prompt(t)]_vars

\* An agent has raised, the selection was run again and its candidate is
\* about to be invoked with the request of the turn.
C28_Witness ==
    /\ pc[1] = "delegate"
    /\ Entries(1, {"raised"}) # <<>>
    /\ Last(log[1]).kind = "llm"
    /\ chat_request[1] = Prompt(1)

\* The exception that reaches the except clauses of chat at the end of a turn
\* with outcome o, "none" when the handler returns the validated response.
ExceptionInChat(o) ==
    CASE o.kind \in {"selection_timeout", "raised_timeout"} -> "TimeoutError"
      [] o.kind = "selection_value_error" -> "ValueError"
      [] o.kind \in {"selection_raised", "raised"} -> "Exception"
      [] o.kind = "returned" ->
            IF /\ o.agent # NoAgent
               /\ o.response.shape = "message"
            THEN "none" ELSE "HTTPException"

\* C29: the handler answers a turn that ended in TimeoutError with 504, one
\* that ended in ValueError with 400 and one that ended in any other
\* exception with 500; a turn without exception is answered 200, so nothing
\* but an HTTPException leaves the handler.
C29_FailuresMappedByKind ==
    [][\A t \in Turns :
          (pc[t] = "done" /\ pc'[t] = "idle") =>
              http'[t] = CASE ExceptionInChat(outcome[t]) = "TimeoutError" -> 504
                           [] ExceptionInChat(outcome[t]) = "ValueError" -> 400
                           [] ExceptionInChat(outcome[t]) = "none" -> 200
                           [] OTHER -> 500]_vars

\* The first turn timed out in its selection and was answered 504, the
\* second ended in a selection ValueError and was answered 400.
C29_Witness ==
    /\ http[1] = 504
    /\ http[2] = 400
    /\ pc[1] = "idle" /\ pc[2] = "idle"

\* C30: when the agent's result is a pair (error_message, status_code), the
\* request is answered with an HTTP error of that status_code.
C30_PairStatusReachesClient ==
    [][\A t \in Turns :
          (/\ pc[t] = "done" /\ pc'[t] = "idle"
           /\ outcome[t].kind = "returned"
           /\ outcome[t].agent # NoAgent
           /\ outcome[t].response.shape = "pair")
              => http'[t] = outcome[t].response.status_code]_vars

\* delegate_chat gave turn t a mapping with role and content from an agent.
EndsValidated(o) ==
    /\ o.kind = "returned"
    /\ o.agent # NoAgent
    /\ o.response.shape = "message"

\* C31: a /chat turn adds the user's prompt to the transcript before routing
\* starts, adds nothing while it routes, and at its end adds a response
\* exactly when it ends with a validated response; a turn answered with an
\* HTTP error has added the prompt and no response.
C31_TranscriptPromptThenResponse ==
    [][\A t \in Turns :
          /\ (pc[t] = "idle" /\ pc'[t] # "idle")
                => transcript'[t] = <<AddMessage(t)>>
          /\ (pc[t] # "idle" /\ pc'[t] # "idle")
                => transcript'[t] = transcript[t]
          /\ (pc[t] = "done" /\ pc'[t] = "idle")
                => /\ transcript'[t] = IF EndsValidated(outcome[t])
                                       THEN <<AddMessage(t), AddResponse(t)>>
                                       ELSE <<AddMessage(t)>>
                   /\ http'[t] # 200 => transcript'[t] = <<AddMessage(t)>>]_vars

\* The first turn was answered 200 and added prompt and response; the second
\* was answered with an HTTP error and added its prompt only.
C31_Witness ==
    /\ pc[1] = "idle" /\ pc[2] = "idle"
    /\ http[1] = 200
    /\ transcript[1] = <<AddMessage(1), AddResponse(1)>>
    /\ http[2] = 500
    /\ transcript[2] = <<AddMessage(2)>>

\* C32: a failure of the MOR API request reaches the client of
\* GET /models/available with the controller's status: 504 for a timeout,
\* 502 for another request failure.
C32_ControllerStatusReachesClient ==
    (answer # NoAnswer /\ call.api.http \in {"timeout", "connection_error", "http_error"}) =>
        /\ answer.client.kind = "HTTPException"
        /\ answer.client.status = IF call.api.http = "timeout" THEN 504 ELSE 502

\* C33: whenever get_available_models returns, "data" is not empty: one
\* entry per model of the API response in the API's order, or the single
\* default model when the API gave no models or no "data" key.
C33_ModelsListNeverEmpty ==
    (answer # NoAnswer /\ answer.controller.kind = "returned") =>
        LET data == answer.controller.data
            api == call.api
        IN  /\ data # <<>>
            /\ IF api.json = "data" /\ api.data # <<>>
               THEN /\ Len(data) = Len(api.data)
                    /\ \A k \in DOMAIN data :
                          /\ data[k].id = IF api.data[k].id = None THEN "unknown"
                                          ELSE api.data[k].id
                          /\ data[k].created = api.data[k].created
               ELSE data = <<DefaultModelInfo>>

\* The API listed two models and the controller returned their two entries
\* in that order.
C33_Witness ==
    /\ answer # NoAnswer
    /\ call.api.json = "data"
    /\ Len(call.api.data) = 2
    /\ call.api.data[1].id = "m2" /\ call.api.data[2].id = "m1"
    /\ answer.controller.kind = "returned"
    /\ answer.controller.data[1].id = "m2" /\ answer.controller.data[2].id = "m1"

\* C34: TweetSizzlerAgent calls client.create_tweet only when the action is
\* "post" and the metadata holds credentials with all five keys; in every
\* other case no tweet is created and the answer is an error response or a
\* generated tweet.
C34_TweetOnlyWithFullCredentials ==
    (answer # NoAnswer /\ call.agent = "tweet_sizzler" /\ call.op = "process_request") =>
        LET created == \E k \in DOMAIN effects : effects[k] = "client.create_tweet"
        IN  /\ created =>
                  /\ call.content_kind = "dict"
                  /\ call.action = "post"
                  /\ call.metadata = "credentials"
            /\ ~created =>
                  \/ answer.response_type = "error"
                  \/ answer = AgentResponseSuccess("tweet", None)

\* A post with complete credentials created the tweet; the answer reports it.
C34_Witness ==
    /\ answer # NoAnswer
    /\ call.agent = "tweet_sizzler"
    /\ call.action = "post"
    /\ call.metadata = "credentials"
    /\ effects = <<"client.create_tweet">>
    /\ answer = AgentResponseSuccess("Tweet posted successfully", None)

\* C35: _execute_tool of DefaultAgent, DexScreenerAgent, ElfaAgent and
\* TweetSizzlerAgent never raises: a name outside the tool table gives an
\* error response and no API request, and an exception of a tool (API
\* failure, missing required argument) gives an error response holding the
\* exception's text.
C35_ExecuteToolNeverRaises ==
    (answer # NoAnswer /\ call.op = "execute_tool") =>
        /\ answer.response_type # "raised"
        /\ (call.agent \in {"default", "tweet_sizzler"} \/ call.func_name = "unknown")
              => /\ answer.response_type = "error"
                 /\ answer.error_message # None
                 /\ effects = <<>>
        /\ (call.func_name # "unknown" /\ call.args = "missing"
              /\ call.func_name \in {"search_dex_pairs", "get_top_mentions",
                                      "get_account_smart_stats"})
              => /\ answer = AgentResponseError("KeyError")
                 /\ effects = <<>>
        /\ (effects # <<>> /\ call.api = "raises")
              => answer = AgentResponseError("api")

\* DexScreener's API failed behind a known tool and the failure came back
\* as an error response.
C35_Witness ==
    /\ answer # NoAnswer
    /\ call.op = "execute_tool"
    /\ call.agent = "dexscreener"
    /\ call.func_name = "get_latest_token_profiles"
    /\ call.api = "raises"
    /\ effects = <<"get_latest_token_profiles">>
    /\ answer = AgentResponseError("api")

\* C36: each crypto-data tool wrapper always returns a message: the API
\* error message when one of its HTTP requests failed, the tool's failure
\* message when the lookup gave None (for a coin or NFT without CoinGecko id
\* after the search request alone), the success message otherwise.
C36_WrapperAlwaysReturnsMessage ==
    answer # NoAnswer =>
        /\ answer.kind = "returned"
        /\ answer.value \in {<<"API_ERROR_MESSAGE">>, <<"FAILURE_MESSAGE", call.tool>>,
                              <<"SUCCESS_MESSAGE", call.tool>>}
        /\ (call.tool \in CoinTools /\ call.search = "no_match")
              => /\ answer.value = <<"FAILURE_MESSAGE", call.tool>>
                 /\ effects = <<"search">>

\* C37: with a response_format, one MORLLM.call on a message list appends
\* the JSON-schema instruction to the last user message exactly once,
\* however many tool-call rounds the call goes through.
C37_InstructionAppendedOnce ==
    (answer # NoAnswer /\ call.response_format) => answer.instructions = 1

\* The events of trace that belong to the completion of request i.
HandledBy(trace, i) ==
    SelectSeq(trace, LAMBDA e : e[1] \in {"assistant", "tool"} /\ e[2] = i)

\* C38: for the tool call it executes, _handle_function_calls appends one
\* assistant message holding the tool call and then one tool message holding
\* its result, before the follow-up request; when no requested function is
\* available it appends nothing, makes no request and returns the fixed text.
C38_ToolMessagesPairedBeforeFollowUp ==
    answer # NoAnswer =>
        \A i \in 1..answer.requests :
            LET c == call.script[i]
                handled == c.http = "ok" /\ c.has_tool_calls /\ call.available_functions
                j == FirstAvailable(c.tool_calls)
                mine == HandledBy(answer.trace, i)
            IN  /\ ~handled => mine = <<>>
                /\ (handled /\ j = 0)
                      => /\ mine = <<>>
                         /\ answer.requests = i
                         /\ answer.content = "no valid functions were executed"
                /\ (handled /\ j # 0 /\ \E e \in DOMAIN answer.executed :
                                            answer.executed[e].request = i)
                      => /\ mine = << <<"assistant", i, j>>, <<"tool", i, j>> >>
                         /\ \A k, l \in DOMAIN answer.trace :
                               (answer.trace[k] = <<"tool", i, j>>
                                   /\ answer.trace[l] = <<"request", i + 1>>) => k < l

\* C39: _process_response never raises; without a response_format it
\* returns the text cut before the first configured stop word it holds, and
\* with a response_format that validates neither the text nor a fragment of
\* it, it returns the text.
C39_ProcessResponseNeverRaises ==
    answer # NoAnswer =>
        /\ answer.kind = "returned"
        /\ (call.response_format = "none" /\ ~call.is_none)
              => answer.value = <<"text", CutAtStop(call.text, call.stop)>>
        /\ (/\ call.response_format # "none" /\ ~call.is_none
            /\ call.whole = "invalid"
            /\ call.markdown \in {"none", "invalid"}
            /\ call.fallback \in {"none", "invalid"})
              => answer.value = <<"text", CutAtStop(call.text, call.stop)>>

====
